---------------------------- MODULE Spec2Model ----------------------------
(***************************************************************************)
(* Model of obsidian-kb-converter: the callout and wiki-link remark        *)
(* plugins, the DOCX generator's block/inline/list rendering and the       *)
(* Markdown cleanup (CLI command detection) of the DOCX-to-Markdown        *)
(* converter.                                                              *)
(*                                                                         *)
(* Text is modelled as a sequence of one-character strings, so that the    *)
(* regular expressions of the source can be evaluated position by          *)
(* position.  Each component has its own variables and its own             *)
(* specification; the variables of the other components stay idle.         *)
(***************************************************************************)
EXTENDS Integers, Sequences, FiniteSets, TLC

VARIABLES
    calloutCase,   \* how the parsed Markdown of the callout run was written
    calloutTree,   \* children of the mdast Root handed to calloutPlugin
    calloutPc,     \* "parsed" before the transformer has run, "done" after
    wikiCase,      \* how the text of the wiki-link run was written
    wikiMode,      \* options.mode of wikiLinkPlugin: "remove" or "text"
    wikiTree,      \* children of the parent node visited by wikiLinkPlugin
    wikiPc,        \* "parsed" / "done"
    genCase,       \* how the document of the generator run was written
    ast,           \* ast.children handed to DocxGenerator.generate
    children,      \* DocxGenerator.children: the blocks emitted so far
    genPos,        \* index of the next top-level node generate() processes
    genPc,         \* "idle" / "running" / "packed"
    imageAnswer,   \* what imageResolver.resolve() answers for an image url
    cleanCase,     \* how the text of the cleanup run was written
    markdown,      \* the text handed to cleanupMarkdown
    cleaned,       \* the text cleanupMarkdown returned
    cleanPc,       \* "raw" / "done"
    convFields,    \* the fields images, imageCounter, docBasename of a DocxToMdConverter
    convHeap,      \* the ConvertedImage[] arrays allocated so far, by reference
    convCalls,     \* the convert() calls on that converter: position and locals
    resFiles,      \* the names of the files app.vault.getFiles() returns
    resCache,      \* VaultImageResolver.cache
    resCalls,      \* the resolve() calls on that resolver: position and result
    resSearches,   \* per name, the vault searches since the cache was last empty
    importSettings, \* settings.importSettings of the plugin
    impFile,       \* the .docx of the import run and what is at its target path
    impRun,        \* the convertDocxFromVault run: position and locals
    impVault,      \* what the run has changed in the vault
    logs,          \* Logger.logs: the lines not yet flushed
    logFile,       \* the log file: whether it exists and its lines
    logFlushes,    \* the flush() executions: position and locals
    logCount       \* the number of logging calls made so far

calloutVars == <<calloutCase, calloutTree, calloutPc>>
wikiVars == <<wikiCase, wikiMode, wikiTree, wikiPc>>
genVars == <<genCase, ast, children, genPos, genPc, imageAnswer>>
cleanVars == <<cleanCase, markdown, cleaned, cleanPc>>
convVars == <<convFields, convHeap, convCalls>>
resVars == <<resFiles, resCache, resCalls, resSearches>>
impVars == <<importSettings, impFile, impRun, impVault>>
logVars == <<logs, logFile, logFlushes, logCount>>
vars == <<calloutVars, wikiVars, genVars, cleanVars, convVars, resVars, impVars, logVars>>

(***************************************************************************)
(* Characters and strings                                                  *)
(***************************************************************************)
LowerSeq ==
    <<"a","b","c","d","e","f","g","h","i","j","k","l","m",
      "n","o","p","q","r","s","t","u","v","w","x","y","z">>
UpperSeq ==
    <<"A","B","C","D","E","F","G","H","I","J","K","L","M",
      "N","O","P","Q","R","S","T","U","V","W","X","Y","Z">>
DigitSeq == <<"0","1","2","3","4","5","6","7","8","9">>

Range(f) == {f[i] : i \in DOMAIN f}
Lower == Range(LowerSeq)
Upper == Range(UpperSeq)
Digit == Range(DigitSeq)
Letter == Lower \cup Upper

\* the character U+0060, which a TLA+ string cannot hold
Backtick == "backtick"

\* \w of a JavaScript regular expression
IsWordChar(c) == c \in Letter \cup Digit \cup {"_"}
\* \s of a JavaScript regular expression (the white space the inputs use)
IsSpace(c) == c \in {" ", "\t", "\n", "\r"}
\* what `.` does not match
IsLineEnd(c) == c \in {"\n", "\r"}

Min(S) == CHOOSE x \in S : \A y \in S : x <= y
Max(S) == CHOOSE x \in S : \A y \in S : x >= y

\* String.prototype.substring(from) with a 0-based index
SubstringFrom(s, from) == SubSeq(s, from + 1, Len(s))
\* String.prototype.substring(from, to) with 0-based indices
Substring(s, from, to) == SubSeq(s, from + 1, to)

\* String.prototype.toLowerCase, character by character
ToLowerChar(c) ==
    IF c \in Upper THEN LowerSeq[CHOOSE i \in 1..26 : UpperSeq[i] = c] ELSE c
ToLowerCase(s) == [i \in 1..Len(s) |-> ToLowerChar(s[i])]

\* String.prototype.trim
Trim(s) ==
    LET keep == {i \in 1..Len(s) : ~IsSpace(s[i])}
    IN  IF keep = {} THEN <<>> ELSE SubSeq(s, Min(keep), Max(keep))

\* String.prototype.startsWith / includes
StartsWith(s, p) == Len(s) >= Len(p) /\ SubSeq(s, 1, Len(p)) = p
MatchAt(s, i, p) == i >= 1 /\ i + Len(p) - 1 <= Len(s) /\ SubSeq(s, i, i + Len(p) - 1) = p
Includes(s, p) == \E i \in 1..(Len(s) + 1) : MatchAt(s, i, p)

\* the number of occurrences of the character c
CountChar(s, c) == Cardinality({i \in 1..Len(s) : s[i] = c})

\* concatenation of a sequence of strings
RECURSIVE Concat(_)
Concat(ss) == IF ss = <<>> THEN <<>> ELSE Head(ss) \o Concat(Tail(ss))

(***************************************************************************)
(* calloutPlugin (src/src/parsers/callout-plugin.ts)                       *)
(***************************************************************************)
TextNode(v) == [type |-> "text", value |-> v]
ParagraphNode(ch) == [type |-> "paragraph", children |-> ch]
BlockquoteNode(ch) == [type |-> "blockquote", children |-> ch]
StrongNode(ch) == [type |-> "strong", children |-> ch]
EmphasisNode(ch) == [type |-> "emphasis", children |-> ch]
CodeNode(v) == [type |-> "code", value |-> v]
CalloutNode(t, title, ch) ==
    [type |-> "callout", calloutType |-> t, title |-> title, children |-> ch]

\* a JavaScript `string | null`
NullTitle == [isNull |-> TRUE, value |-> <<>>]
SomeTitle(s) == [isNull |-> FALSE, value |-> s]

\* text.match(/^\[!(\w+)\]\s*(.*)/): ok, group 1, group 2 and match[0].length
CalloutMatch(text) ==
    LET nonWord == {j \in 3..Len(text) : ~IsWordChar(text[j])}
        close == IF nonWord = {} THEN Len(text) + 1 ELSE Min(nonWord)
        ok == /\ Len(text) >= 4
              /\ text[1] = "[" /\ text[2] = "!"
              /\ close > 3 /\ close <= Len(text) /\ text[close] = "]"
        nonSpace == {j \in (close + 1)..Len(text) : ~IsSpace(text[j])}
        start == IF nonSpace = {} THEN Len(text) + 1 ELSE Min(nonSpace)
        ends == {j \in start..Len(text) : IsLineEnd(text[j])}
        stop == IF ends = {} THEN Len(text) + 1 ELSE Min(ends)
    IN  IF ok
        THEN [ok |-> TRUE, word |-> SubSeq(text, 3, close - 1),
              rest |-> SubSeq(text, start, stop - 1), len |-> stop - 1]
        ELSE [ok |-> FALSE, word |-> <<>>, rest |-> <<>>, len |-> 0]

CalloutTypeRaw(m) == m.word
\* const calloutType = calloutMatch[1].toLowerCase()
CalloutTypeOf(m) == ToLowerCase(m.word)

\* const title = calloutMatch[2] || null
CalloutTitleOf(m) == IF m.rest = <<>> THEN NullTitle ELSE SomeTitle(m.rest)

\* the content paragraphs collected by the visitor
CalloutContent(node, text, m) ==
    LET firstParagraph == node.children[1]
        remainingText == Trim(SubstringFrom(text, m.len))
        remainingInlineContent == Tail(firstParagraph.children)
        newChildren ==
            (IF remainingText # <<>> THEN <<TextNode(remainingText)>> ELSE <<>>)
                \o remainingInlineContent
        first ==
            IF (remainingText # <<>> \/ Len(remainingInlineContent) > 0)
                  /\ Len(newChildren) > 0
            THEN <<ParagraphNode(newChildren)>> ELSE <<>>
        later == SelectSeq(Tail(node.children), LAMBDA c : c.type = "paragraph")
    IN  first \o later

\* the visitor of visit(tree, 'blockquote', ...): the node that stands at
\* parent.children[index] when the visitor returns
CalloutVisitor(node) ==
    IF Len(node.children) = 0 \/ node.children[1].type # "paragraph"
    THEN node
    ELSE IF Len(node.children[1].children) = 0
    THEN node
    ELSE IF node.children[1].children[1].type # "text"
    THEN node
    ELSE LET text == node.children[1].children[1].value
             m == CalloutMatch(text)
         IN  IF ~m.ok THEN node
             ELSE CalloutNode(CalloutTypeOf(m), CalloutTitleOf(m),
                              CalloutContent(node, text, m))

HasBlockChildren(n) == n.type \in {"blockquote", "listItem", "list"}

\* visit(): pre-order walk; a blockquote the visitor replaced is detached
\* from the tree, so what the walk does below it no longer shows in the tree
RECURSIVE CalloutVisit(_)
CalloutVisit(nodes) ==
    [i \in 1..Len(nodes) |->
        LET n == nodes[i]
            r == IF n.type = "blockquote" THEN CalloutVisitor(n) ELSE n
        IN  IF r.type = "callout" THEN r
            ELSE IF HasBlockChildren(r)
            THEN [r EXCEPT !.children = CalloutVisit(r.children)]
            ELSE r]


(***************************************************************************)
(* The blockquotes calloutPlugin is run on                                 *)
(***************************************************************************)
MaxExtraParas == 1

S_tip == <<"t","i","p">>
S_TIP == <<"T","I","P">>
S_Note == <<"N","o","t","e">>
S_note == <<"n","o","t","e">>
S_QuickTip == <<"Q","u","i","c","k"," ","t","i","p">>
S_A1 == <<"A","-","1">>
S_Body == <<"B","o","d","y">>
S_BodyMore == <<"B","o","d","y","\n","M","o","r","e">>
S_Quote == <<"Q","u","o","t","e">>
S_x == <<"x">>

\* a marker word as written and the same word in lower case
CalloutWords ==
    { [written |-> S_tip, lower |-> S_tip], [written |-> S_TIP, lower |-> S_tip],
      [written |-> S_Note, lower |-> S_note] }

\* a blockquote that opens with a callout marker: `[!word]`, blanks, the rest
\* of the marker's line, then (body) further lines of the same Text node,
\* (inline) further inline children, (extra) further children of the quote
MarkerCases ==
    [shape : {"marker"}, word : CalloutWords, sep : {<<>>, <<" ">>, <<" ", " ">>},
     rest : {<<>>, S_QuickTip, S_A1}, body : {<<>>, S_Body, S_BodyMore},
     inline : BOOLEAN, extra : 0..MaxExtraParas, code : BOOLEAN,
     place : {"root", "afterParagraph", "inQuote", "inListItem"}]

\* blockquotes that are ordinary quotes
PlainCases ==
    [shape : {"plainText", "noBang", "notAtStart", "emptyWord", "strongFirst",
              "codeFirst", "emptyQuote", "emptyParagraph"},
     word : {[written |-> S_tip, lower |-> S_tip]}, sep : {<<" ">>},
     rest : {S_QuickTip}, body : {<<>>}, inline : {FALSE}, extra : 0..MaxExtraParas,
     code : {FALSE}, place : {"root", "afterParagraph", "inQuote", "inListItem"}]

CalloutCases == MarkerCases \cup PlainCases

MarkerText(c) ==
    <<"[", "!">> \o c.word.written \o <<"]">> \o c.sep \o c.rest
        \o (IF c.body = <<>> THEN <<>> ELSE <<"\n">> \o c.body)

FirstChildren(c) ==
    CASE c.shape = "marker" ->
            <<ParagraphNode(<<TextNode(MarkerText(c))>>
                \o (IF c.inline THEN <<StrongNode(<<TextNode(S_x)>>)>> ELSE <<>>))>>
      [] c.shape = "plainText" -> <<ParagraphNode(<<TextNode(S_Quote)>>)>>
      [] c.shape = "noBang" ->
            <<ParagraphNode(<<TextNode(<<"[">> \o S_tip \o <<"]", " ">> \o c.rest)>>)>>
      [] c.shape = "notAtStart" ->
            <<ParagraphNode(<<TextNode(<<"x", "[", "!">> \o S_tip \o <<"]">>)>>)>>
      [] c.shape = "emptyWord" ->
            <<ParagraphNode(<<TextNode(<<"[", "!", "]", " ">> \o c.rest)>>)>>
      [] c.shape = "strongFirst" ->
            <<ParagraphNode(<<StrongNode(<<TextNode(<<"[", "!">> \o S_tip \o <<"]">>)>>)>>)>>
      [] c.shape = "codeFirst" -> <<CodeNode(S_x)>>
      [] c.shape = "emptyParagraph" -> <<ParagraphNode(<<>>)>>
      [] OTHER -> <<>>

ExtraChildren(c) ==
    (IF c.code THEN <<CodeNode(S_x)>> ELSE <<>>)
        \o [i \in 1..c.extra |-> ParagraphNode(<<TextNode(S_Body)>>)]

CaseQuote(c) == BlockquoteNode(FirstChildren(c) \o ExtraChildren(c))

\* the Root's children with the blockquote at the place the case names
CaseTree(c) ==
    CASE c.place = "root" -> <<CaseQuote(c)>>
      [] c.place = "afterParagraph" ->
            <<ParagraphNode(<<TextNode(S_x)>>), CaseQuote(c)>>
      [] c.place = "inQuote" ->
            <<BlockquoteNode(<<ParagraphNode(<<TextNode(S_Quote)>>), CaseQuote(c)>>)>>
      [] OTHER ->
            <<[type |-> "list", ordered |-> FALSE, children |->
                <<[type |-> "listItem", children |-> <<CaseQuote(c)>>]>>]>>

\* the node that stands where the case's blockquote was put
NodeAtPlace(tree, place) ==
    CASE place = "root" -> tree[1]
      [] place = "afterParagraph" -> tree[2]
      [] place = "inQuote" -> tree[1].children[2]
      [] OTHER -> tree[1].children[1].children[1]

\* processor.runSync(tree) with calloutPlugin as the transformer
RunCalloutPlugin ==
    /\ calloutPc = "parsed"
    /\ calloutTree' = CalloutVisit(calloutTree)
    /\ calloutPc' = "done"
    /\ UNCHANGED <<calloutCase, wikiVars, genVars, cleanVars, convVars, resVars, impVars, logVars>>

(***************************************************************************)
(* wikiLinkPlugin (src/src/converters/docx-to-md.ts, lines 613-676)        *)
(***************************************************************************)
NoWikiMatch == [ok |-> FALSE, target |-> <<>>, hasAlias |-> FALSE, alias |-> <<>>, last |-> 0]

\* /\[\[([^\]|]+)(?:\|([^\]]+))?\]\]/ anchored at position i: both character
\* classes are greedy and are followed by a character they exclude, so the
\* target and the alias are the maximal runs
WikiMatchAt(s, i) ==
    IF ~MatchAt(s, i, <<"[", "[">>) THEN NoWikiMatch
    ELSE
    LET stopT == {j \in (i + 2)..Len(s) : s[j] \in {"]", "|"}}
        t == IF stopT = {} THEN Len(s) + 1 ELSE Min(stopT)
        stopA == {j \in (t + 1)..Len(s) : s[j] = "]"}
        a == IF stopA = {} THEN Len(s) + 1 ELSE Min(stopA)
    IN  IF t = i + 2 \/ t > Len(s) THEN NoWikiMatch
        ELSE IF s[t] = "]"
        THEN IF MatchAt(s, t, <<"]", "]">>)
             THEN [ok |-> TRUE, target |-> SubSeq(s, i + 2, t - 1),
                   hasAlias |-> FALSE, alias |-> <<>>, last |-> t + 1]
             ELSE NoWikiMatch
        ELSE IF a > t + 1 /\ MatchAt(s, a, <<"]", "]">>)
             THEN [ok |-> TRUE, target |-> SubSeq(s, i + 2, t - 1),
                   hasAlias |-> TRUE, alias |-> SubSeq(s, t + 1, a - 1), last |-> a + 1]
             ELSE NoWikiMatch

WikiDisplayTarget(m) == m.target
\* const displayText = match[2] || match[1]
WikiDisplay(m) == IF m.hasAlias THEN m.alias ELSE m.target

\* the while loop over wikiLinkPattern.exec(text) and the text after the last
\* match: the values of newNodes, given that the search resumes at `from`
RECURSIVE WikiNewNodes(_, _, _)
WikiNewNodes(text, from, mode) ==
    LET starts == {i \in from..Len(text) : WikiMatchAt(text, i).ok}
    IN  IF starts = {}
        THEN IF from <= Len(text) THEN <<SubSeq(text, from, Len(text))>> ELSE <<>>
        ELSE LET i == Min(starts)
                 m == WikiMatchAt(text, i)
             IN  (IF i > from THEN <<SubSeq(text, from, i - 1)>> ELSE <<>>)
                    \o (IF mode = "text" THEN <<WikiDisplay(m)>> ELSE <<>>)
                    \o WikiNewNodes(text, m.last + 1, mode)

WikiHasChanges(text) == \E i \in 1..Len(text) : WikiMatchAt(text, i).ok

\* Array.prototype.splice(index, 1, ...items) with a 1-based index
Splice(nodes, index, items) ==
    SubSeq(nodes, 1, index - 1) \o items \o SubSeq(nodes, index + 1, Len(nodes))

\* the visitor of visit(tree, 'text', ...): parent.children after the call
WikiVisitor(nodes, index, mode) ==
    LET node == nodes[index]
        newNodes == WikiNewNodes(node.value, 1, mode)
    IN  IF ~WikiHasChanges(node.value) THEN nodes
        ELSE IF Len(newNodes) = 0 THEN Splice(nodes, index, <<>>)
        ELSE IF Len(newNodes) = 1
        THEN [nodes EXCEPT ![index].value = newNodes[1]]
        ELSE Splice(nodes, index, [k \in 1..Len(newNodes) |-> TextNode(newNodes[k])])

\* the child loop of unist-util-visit: the child at `offset` is visited (a
\* Text by the visitor, any other parent by the walk over its children), then
\* the loop goes on at offset + 1 of the children as they are by then
RECURSIVE WikiVisit(_, _, _)
WikiVisit(nodes, offset, mode) ==
    IF offset > Len(nodes) THEN nodes
    ELSE LET child == nodes[offset]
         IN  IF child.type = "text"
             THEN WikiVisit(WikiVisitor(nodes, offset, mode), offset + 1, mode)
             ELSE IF "children" \in DOMAIN child
             THEN WikiVisit([nodes EXCEPT ![offset].children =
                                WikiVisit(child.children, 1, mode)], offset + 1, mode)
             ELSE WikiVisit(nodes, offset + 1, mode)

\* the text of all Text nodes of a forest, in document order
RECURSIVE FlattenText(_)
FlattenText(nodes) ==
    IF nodes = <<>> THEN <<>>
    ELSE LET n == Head(nodes)
         IN  (IF n.type = "text" THEN n.value
              ELSE IF "children" \in DOMAIN n THEN FlattenText(n.children)
              ELSE <<>>) \o FlattenText(Tail(nodes))

(***************************************************************************)
(* The Text nodes wikiLinkPlugin is run on                                 *)
(***************************************************************************)
MaxSegs == 3

S_see == <<"s","e","e"," ">>
S_and == <<" ","a","n","d"," ">>
S_A == <<"A">>
S_PageA == <<"P","a","g","e"," ","A">>
S_shown == <<"s","h","o","w","n"," ","t","e","x","t">>
S_bc == <<"b","[","c">>
S_png == <<"i",".","p","n","g">>
S_400 == <<"4","0","0">>

PlainSeg(t) == [kind |-> "plain", target |-> <<>>, hasAlias |-> FALSE, alias |-> t]
LinkSeg(t) == [kind |-> "link", target |-> t, hasAlias |-> FALSE, alias |-> <<>>]
AliasSeg(t, a) == [kind |-> "link", target |-> t, hasAlias |-> TRUE, alias |-> a]
EmbedSeg(t) == [kind |-> "embed", target |-> t, hasAlias |-> FALSE, alias |-> <<>>]
EmbedSizeSeg(t, a) == [kind |-> "embed", target |-> t, hasAlias |-> TRUE, alias |-> a]

\* the pieces a Text value is written from: plain text without brackets,
\* wiki-links with and without alias, image embeds with and without width
WikiSegs ==
    { PlainSeg(S_see), PlainSeg(S_and), LinkSeg(S_A), AliasSeg(S_PageA, S_shown),
      AliasSeg(S_A, S_bc), EmbedSeg(S_png), EmbedSizeSeg(S_png, S_400) }

SegSeqs == UNION {[1..n -> WikiSegs] : n \in 1..MaxSegs}

\* a segment as it is written in Markdown
SegText(g) ==
    IF g.kind = "plain" THEN g.alias
    ELSE (IF g.kind = "embed" THEN <<"!">> ELSE <<>>)
            \o <<"[", "[">> \o g.target
            \o (IF g.hasAlias THEN <<"|">> \o g.alias ELSE <<>>) \o <<"]", "]">>

SegsText(segs) == Concat([k \in 1..Len(segs) |-> SegText(segs[k])])

\* the siblings that follow the Text node in its parent
WikiSiblings ==
    { <<>>, <<TextNode(SegText(LinkSeg(S_A)))>>,
      <<EmphasisNode(<<TextNode(SegText(AliasSeg(S_PageA, S_shown)))>>)>>,
      <<TextNode(S_x)>> }

WikiCases == [segs : SegSeqs, wrapped : BOOLEAN, after : WikiSiblings]

WikiCaseTree(c) ==
    (IF c.wrapped THEN <<StrongNode(<<TextNode(SegsText(c.segs))>>)>>
     ELSE <<TextNode(SegsText(c.segs))>>) \o c.after

\* processor.runSync(tree) with wikiLinkPlugin as the transformer
RunWikiLinkPlugin ==
    /\ wikiPc = "parsed"
    /\ wikiTree' = WikiVisit(wikiTree, 1, wikiMode)
    /\ wikiPc' = "done"
    /\ UNCHANGED <<wikiCase, wikiMode, calloutVars, genVars, cleanVars, convVars, resVars,
                   impVars, logVars>>

(***************************************************************************)
(* DocxGenerator (src/src/generators/docx-generator.ts)                    *)
(***************************************************************************)
\* a resolve() answer: null, or a buffer with or without width and height
NoImage == [found |-> FALSE, width |-> 0, height |-> 0]
ImageAnswers ==
    { NoImage, [found |-> TRUE, width |-> 0, height |-> 0],
      [found |-> TRUE, width |-> 640, height |-> 480] }

\* new TextRun({ text })
TextRun(t) ==
    [run |-> "text", text |-> t, bold |-> FALSE, italics |-> FALSE, font |-> "",
     break |-> 0, width |-> 0, height |-> 0]
\* new TextRun({ break: 1 })
BreakRun == [TextRun(<<>>) EXCEPT !.break = 1]
\* new TextRun({ text, font, size, shading }) of an inlineCode node
CodeRun(t, font) == [TextRun(t) EXCEPT !.font = font]
\* new ImageRun({ data, transformation: { width, height } })
ImageRun(w, h) ==
    [run |-> "image", text |-> <<>>, bold |-> FALSE, italics |-> FALSE, font |-> "",
     break |-> 0, width |-> w, height |-> h]

CodeFontName == "Consolas"

\* the map() of case 'strong': a TextRun is rebuilt from its text alone
BoldOf(run) ==
    IF run.run = "text" THEN [TextRun(run.text) EXCEPT !.bold = TRUE] ELSE run
\* the map() of case 'emphasis'
ItalicOf(run) ==
    IF run.run = "text" THEN [TextRun(run.text) EXCEPT !.italics = TRUE] ELSE run

MapRuns(Op(_), runs) == [k \in 1..Len(runs) |-> Op(runs[k])]

RECURSIVE ProcessInlineContent(_)
ProcessInlineContent(nodes) ==
    IF nodes = <<>> THEN <<>>
    ELSE LET node == Head(nodes)
             runs ==
                CASE node.type = "text" -> <<TextRun(node.value)>>
                  [] node.type = "strong" ->
                        MapRuns(BoldOf, ProcessInlineContent(node.children))
                  [] node.type = "emphasis" ->
                        MapRuns(ItalicOf, ProcessInlineContent(node.children))
                  [] node.type = "inlineCode" -> <<CodeRun(node.value, CodeFontName)>>
                  [] node.type = "link" -> ProcessInlineContent(node.children)
                  [] node.type = "break" -> <<BreakRun>>
                  [] OTHER ->
                        IF "value" \in DOMAIN node THEN <<TextRun(node.value)>> ELSE <<>>
         IN  runs \o ProcessInlineContent(Tail(nodes))

DefaultImageWidth == 400
DefaultImageHeight == 300

RECURSIVE ProcessInlineContentAsync(_, _)
ProcessInlineContentAsync(nodes, answer) ==
    IF nodes = <<>> THEN <<>>
    ELSE LET node == Head(nodes)
             runs ==
                IF node.type = "image"
                THEN IF answer.found
                     THEN <<ImageRun(IF answer.width = 0 THEN DefaultImageWidth
                                     ELSE answer.width,
                                     IF answer.height = 0 THEN DefaultImageHeight
                                     ELSE answer.height)>>
                     ELSE <<>>
                ELSE ProcessInlineContent(<<node>>)
         IN  runs \o ProcessInlineContentAsync(Tail(nodes), answer)

\* new Paragraph({ heading, children, ...props })
DocxParagraph(heading, runs, props) ==
    [block |-> "paragraph", heading |-> heading, children |-> runs, props |-> props]

\* headingLevels[level] || HeadingLevel.HEADING_1
CreateHeading(node) ==
    DocxParagraph(IF node.depth \in 1..6 THEN node.depth ELSE 1,
                  ProcessInlineContent(node.children), "heading")

CreateParagraphSync(node, answer) ==
    DocxParagraph(0, ProcessInlineContent(node.children), "body")
\* createParagraph(node)
CreateParagraph(node, answer) ==
    DocxParagraph(0, ProcessInlineContentAsync(node.children, answer), "body")

\* String(n) of a natural number
RECURSIVE NatToString(_)
NatToString(n) ==
    IF n < 10 THEN <<DigitSeq[n + 1]>>
    ELSE NatToString(n \div 10) \o <<DigitSeq[(n % 10) + 1]>>

ListMarkerZeroBased(isOrdered, index) ==
    IF isOrdered THEN NatToString(index) \o <<".", " ">> ELSE <<"bullet", " ">>
\* the character U+2022
BulletChar == "bullet"
\* isOrdered ? `${index + 1}. ` : (U+2022 and a blank)
ListMarker(isOrdered, index) ==
    IF isOrdered THEN NatToString(index + 1) \o <<".", " ">> ELSE <<BulletChar, " ">>

\* the options of a list line besides its runs: spacing after, nothing else
ListLineOptions == [spacing |-> [after |-> 120]]

\* processList / processListItem: the list lines in emission order
RECURSIVE ProcessList(_, _)
RECURSIVE ProcessListItems(_, _, _, _)
RECURSIVE ProcessListItem(_, _, _, _)
ProcessList(node, answer) ==
    ProcessListItems(node.children, node.ordered, 0, answer)

\* for (let i = 0; i < node.children.length; i++) processListItem(item, isOrdered, i)
ProcessListItems(items, isOrdered, i, answer) ==
    IF i >= Len(items) THEN <<>>
    ELSE ProcessListItem(items[i + 1].children, isOrdered, i, answer)
            \o ProcessListItems(items, isOrdered, i + 1, answer)

ProcessListItem(kids, isOrdered, index, answer) ==
    IF kids = <<>> THEN <<>>
    ELSE LET child == Head(kids)
             out ==
                IF child.type = "paragraph"
                THEN <<DocxParagraph(0,
                          <<TextRun(ListMarker(isOrdered, index))>>
                              \o ProcessInlineContentAsync(child.children, answer),
                          ListLineOptions)>>
                ELSE IF child.type = "list" THEN ProcessList(child, answer)
                ELSE <<>>
         IN  out \o ProcessListItem(Tail(kids), isOrdered, index, answer)

\* String.prototype.split('\n')
RECURSIVE SplitLines(_)
SplitLines(s) ==
    LET nl == {i \in 1..Len(s) : s[i] = "\n"}
    IN  IF nl = {} THEN <<s>>
        ELSE <<SubSeq(s, 1, Min(nl) - 1)>> \o SplitLines(SubSeq(s, Min(nl) + 1, Len(s)))

\* createCodeBlock: one run per line, a break run between two lines
CreateCodeBlock(node) ==
    LET lines == SplitLines(node.value)
        runs == Concat([i \in 1..Len(lines) |->
                    (IF i > 1 THEN <<BreakRun>> ELSE <<>>)
                        \o <<CodeRun(lines[i], CodeFontName)>>])
    IN  DocxParagraph(0, runs, "codeBlock")

\* createStyledTable: the text of every cell, row 0 being the header row
CreateStyledTable(node) ==
    [block |-> "table", heading |-> 0, children |-> <<>>,
     props |-> [r \in 1..Len(node.children) |->
                  [header |-> (r = 1),
                   cells |-> [c \in 1..Len(node.children[r].children) |->
                                FlattenText(node.children[r].children[c].children)]]]]

\* settings.calloutStyles (DEFAULT_SETTINGS) and DEFAULT_CALLOUT_STYLE
CalloutStyle(bg, border, w) == [background |-> bg, border |-> border, leftBorderWidth |-> w]
DEFAULT_CALLOUT_STYLE == CalloutStyle("E8F4FD", "4A90E2", 12)
S_warning == <<"w","a","r","n","i","n","g">>
S_danger == <<"d","a","n","g","e","r">>
S_info == <<"i","n","f","o">>
S_question == <<"q","u","e","s","t","i","o","n">>
\* settings.calloutStyles: the six default styles, their leftBorderWidth as
\* the loaded settings of the document carry it (12 in DEFAULT_SETTINGS)
CalloutStyles ==
    LET w == genCase.leftBorderWidth
    IN  [k \in {S_note, S_tip, S_warning, S_danger, S_info, S_question} |->
            CASE k = S_note -> CalloutStyle("E8F4FD", "4A90E2", w)
              [] k = S_tip -> CalloutStyle("E8F5E9", "4CAF50", w)
              [] k = S_warning -> CalloutStyle("FFF3E0", "FF9800", w)
              [] k = S_danger -> CalloutStyle("FFEBEE", "F44336", w)
              [] k = S_info -> CalloutStyle("E1F5FE", "00BCD4", w)
              [] OTHER -> CalloutStyle("F3E5F5", "9C27B0", w)]

\* the lower-case \w+ names every plain object inherits from Object.prototype
\* (toString, valueOf, hasOwnProperty, ... hold capitals; calloutType is
\* lower-cased by the callout plugin)
S_constructor == <<"c","o","n","s","t","r","u","c","t","o","r">>
S___proto__ == <<"_","_","p","r","o","t","o","_","_">>
ObjectPrototypeKeys == {S_constructor, S___proto__}

\* an inherited value (the function Object, the object Object.prototype): it
\* is truthy and has no background, border or leftBorderWidth
InheritedValue == [inherited |-> TRUE]

\* styles[callout.calloutType] || DEFAULT_CALLOUT_STYLE on the plain object
\* `styles`: own keys first, then the prototype chain, undefined otherwise
StyleOf(calloutType) ==
    IF calloutType \in DOMAIN CalloutStyles THEN CalloutStyles[calloutType]
    ELSE IF calloutType \in ObjectPrototypeKeys THEN InheritedValue
    ELSE DEFAULT_CALLOUT_STYLE

\* String.prototype.toUpperCase of one character
ToUpperChar(c) ==
    IF c \in Lower THEN UpperSeq[CHOOSE i \in 1..26 : LowerSeq[i] = c] ELSE c
\* capitalize(str)
Capitalize(str) == IF str = <<>> THEN <<>> ELSE <<ToUpperChar(str[1])>> \o Tail(str)

\* createCalloutParagraph: the border sizes in eighths of a point; a style
\* without the three properties gives the colours `undefined` and the left
\* size undefined * 4 = NaN, which is no size and has no field here
CreateCalloutParagraph(runs, style) ==
    DocxParagraph(0, runs,
        IF "leftBorderWidth" \in DOMAIN style
        THEN [shading |-> style.background, color |-> style.border,
              left |-> style.leftBorderWidth * 4, top |-> 16, right |-> 16, bottom |-> 16]
        ELSE [shading |-> "undefined", color |-> "undefined",
              top |-> 16, right |-> 16, bottom |-> 16])

\* the run createCalloutParagraphs makes of one inline child of a content paragraph
CalloutRun(node) ==
    CASE node.type = "text" -> TextRun(node.value)
      [] node.type = "strong" -> [TextRun(FlattenText(<<node>>)) EXCEPT !.bold = TRUE]
      [] node.type = "emphasis" -> [TextRun(FlattenText(<<node>>)) EXCEPT !.italics = TRUE]
      [] node.type = "inlineCode" -> CodeRun(node.value, "Courier New")
      [] OTHER -> TextRun(<<>>)

\* createCalloutParagraphs(callout, styles)
CreateCalloutParagraphs(callout) ==
    LET style == StyleOf(callout.calloutType)
        headerText ==
            IF ~callout.title.isNull
            THEN Capitalize(callout.calloutType) \o <<":", " ">> \o callout.title.value
            ELSE Capitalize(callout.calloutType) \o <<":">>
        paras == SelectSeq(callout.children, LAMBDA c : c.type = "paragraph")
    IN  <<CreateCalloutParagraph(<<[TextRun(headerText) EXCEPT !.bold = TRUE]>>, style)>>
            \o [i \in 1..Len(paras) |->
                  CreateCalloutParagraph(MapRuns(CalloutRun, paras[i].children), style)]

\* processNode(node): the blocks pushed to this.children
RECURSIVE ProcessNode(_, _)
RECURSIVE ProcessNodes(_, _)
ProcessNode(node, answer) ==
    CASE node.type = "heading" -> <<CreateHeading(node)>>
      [] node.type = "paragraph" -> <<CreateParagraph(node, answer)>>
      [] node.type = "code" -> <<CreateCodeBlock(node)>>
      [] node.type = "blockquote" -> ProcessNodes(node.children, answer)
      [] node.type = "list" -> ProcessList(node, answer)
      [] node.type = "table" -> <<CreateStyledTable(node)>>
      [] node.type = "thematicBreak" -> <<DocxParagraph(0, <<>>, "separator")>>
      [] node.type = "callout" -> CreateCalloutParagraphs(node)
      [] OTHER -> <<>>

ProcessNodes(nodes, answer) ==
    IF nodes = <<>> THEN <<>>
    ELSE ProcessNode(Head(nodes), answer) \o ProcessNodes(Tail(nodes), answer)

\* generate(ast): this.children = []
Generate ==
    /\ genPc = "idle"
    /\ children' = <<>>
    /\ genPos' = 1
    /\ genPc' = "running"
    /\ UNCHANGED <<genCase, ast, imageAnswer, calloutVars, wikiVars, cleanVars, convVars, resVars,
                   impVars, logVars>>

\* one turn of `for (const node of ast.children) await this.processNode(node)`
GenerateNode ==
    /\ genPc = "running"
    /\ genPos <= Len(ast)
    /\ children' = children \o ProcessNode(ast[genPos], imageAnswer)
    /\ genPos' = genPos + 1
    /\ UNCHANGED <<genCase, ast, genPc, imageAnswer, calloutVars, wikiVars, cleanVars,
                   convVars, resVars, impVars, logVars>>

\* new Document({ sections: [{ children: this.children }] }); Packer.toBuffer
GeneratePack ==
    /\ genPc = "running"
    /\ genPos > Len(ast)
    /\ genPc' = "packed"
    /\ UNCHANGED <<genCase, ast, children, genPos, imageAnswer, calloutVars, wikiVars,
                   cleanVars, convVars, resVars, impVars, logVars>>

(***************************************************************************)
(* The documents generate() is run on                                      *)
(***************************************************************************)
MaxWrap == 2
MaxItems == 3
MaxNested == 2

S_bold == <<"b","o","l","d"," ">>
S_andItalic == <<"a","n","d"," ","i","t","a","l","i","c">>
S_text == <<" ","t","e","x","t">>
S_item == <<"i","t","e","m">>
S_sub == <<"s","u","b">>
S_Intro == <<"I","n","t","r","o">>
S_TableOfContents ==
    <<"T","a","b","l","e"," ","o","f"," ","C","o","n","t","e","n","t","s">>
S_TABLEOFCONTENTS ==
    <<"T","A","B","L","E"," ","O","F"," ","C","O","N","T","E","N","T","S">>
S_code == <<"l","s","\n","p","w","d">>

\* inline wrappers nested in one another, the outermost first: every wrapper
\* but the innermost holds a text, the next wrapper and a text
WrapChains == UNION {[1..n -> {"strong", "emphasis", "link"}] : n \in 1..MaxWrap}

RECURSIVE Nest(_)
Nest(ws) ==
    [type |-> Head(ws),
     children |-> IF Len(ws) = 1 THEN <<TextNode(S_andItalic)>>
                  ELSE <<TextNode(S_bold), Nest(Tail(ws)), TextNode(S_text)>>]

ListItemNode(ch) == [type |-> "listItem", children |-> ch]
ListNode(ordered, items) == [type |-> "list", ordered |-> ordered, children |-> items]
HeadingNode(depth, ch) == [type |-> "heading", depth |-> depth, children |-> ch]
ImageNode(url) == [type |-> "image", url |-> url]

\* a list of n items; when k > 0 its item k also holds a nested list of m items
ListShapes ==
    { c \in [ordered : BOOLEAN, n : 1..MaxItems, k : 0..MaxItems, m : 1..MaxNested,
             nestedOrdered : BOOLEAN] :
        /\ c.k <= c.n
        /\ c.k = 0 => (c.m = 1 /\ c.nestedOrdered) }

ShapeList(c) ==
    ListNode(c.ordered,
        [i \in 1..c.n |->
            ListItemNode(<<ParagraphNode(<<TextNode(S_item)>>)>>
                \o (IF i = c.k
                    THEN <<ListNode(c.nestedOrdered,
                              [j \in 1..c.m |->
                                  ListItemNode(<<ParagraphNode(<<TextNode(S_sub)>>)>>)])>>
                    ELSE <<>>))])

\* the node the document is about
MainNodes ==
    {[kind |-> "inline", chain |-> ws] : ws \in WrapChains}
        \cup {[kind |-> "list", shape |-> c] : c \in ListShapes}
        \cup {[kind |-> k] : k \in {"text", "image", "codeInStrong", "breakInEmphasis",
                                    "code", "table", "thematicBreak", "callout",
                                    "calloutOther", "blockquote", "html", "looseItem"}}

MainNode(c) ==
    CASE c.kind = "inline" -> ParagraphNode(<<Nest(c.chain)>>)
      [] c.kind = "list" -> ShapeList(c.shape)
      [] c.kind = "text" -> ParagraphNode(<<TextNode(S_text)>>)
      [] c.kind = "image" ->
            ParagraphNode(<<TextNode(S_bold), ImageNode(S_png), TextNode(S_text)>>)
      [] c.kind = "codeInStrong" ->
            ParagraphNode(<<StrongNode(<<[type |-> "inlineCode", value |-> S_x]>>)>>)
      [] c.kind = "breakInEmphasis" ->
            ParagraphNode(<<EmphasisNode(<<TextNode(S_bold), [type |-> "break"],
                                          TextNode(S_text)>>)>>)
      [] c.kind = "code" -> CodeNode(S_code)
      [] c.kind = "table" ->
            [type |-> "table", children |->
                [r \in 1..2 |-> [type |-> "tableRow", children |->
                    [k \in 1..2 |-> [type |-> "tableCell", children |->
                        <<StrongNode(<<TextNode(S_A)>>), TextNode(S_x)>>]]]]]
      [] c.kind = "thematicBreak" -> [type |-> "thematicBreak"]
      [] c.kind = "callout" ->
            CalloutNode(S_tip, SomeTitle(S_QuickTip),
                        <<ParagraphNode(<<TextNode(S_Body), StrongNode(<<TextNode(S_x)>>)>>)>>)
      [] c.kind = "calloutOf" ->
            CalloutNode(c.calloutType, NullTitle,
                        <<ParagraphNode(<<TextNode(S_Body)>>),
                          ParagraphNode(<<TextNode(S_BodyMore)>>)>>)
      [] c.kind = "calloutOther" ->
            CalloutNode(S_sub, NullTitle, <<ParagraphNode(<<TextNode(S_Body)>>)>>)
      [] c.kind = "blockquote" ->
            BlockquoteNode(<<ParagraphNode(<<TextNode(S_Quote)>>), CodeNode(S_x)>>)
      [] c.kind = "looseItem" ->
            ListNode(TRUE, <<ListItemNode(<<ParagraphNode(<<TextNode(S_item)>>),
                                            ParagraphNode(<<TextNode(S_sub)>>)>>),
                             ListItemNode(<<CodeNode(S_x)>>),
                             ListItemNode(<<ParagraphNode(<<TextNode(S_item)>>)>>)>>)
      [] OTHER -> [type |-> "html", value |-> S_x]

\* the heading that may stand before the main node, the list that may follow it
HeadingTexts == {S_Intro, S_TableOfContents, S_TABLEOFCONTENTS}
\* the callout types of the callout documents: configured ones, an
\* unconfigured word, and the two inherited names
CalloutTypeWords == {S_tip, S_warning, S_sub, S_constructor, S___proto__}
MaxLeftBorderWidth == 12
GenCases ==
    [main : MainNodes, heading : {<<>>} \cup HeadingTexts, depth : {2, 7},
     trailingList : BOOLEAN, leftBorderWidth : {DEFAULT_CALLOUT_STYLE.leftBorderWidth}]
    \cup [main : {[kind |-> "calloutOf", calloutType |-> t] : t \in CalloutTypeWords},
          heading : {<<>>}, depth : {2}, trailingList : {FALSE},
          leftBorderWidth : 1..MaxLeftBorderWidth]

TrailingList == ListNode(FALSE, <<ListItemNode(<<ParagraphNode(<<TextNode(S_x)>>)>>)>>)

GenCaseAst(c) ==
    (IF c.heading = <<>> THEN <<>> ELSE <<HeadingNode(c.depth, <<TextNode(c.heading)>>)>>)
        \o <<MainNode(c.main)>>
        \o (IF c.trailingList THEN <<TrailingList>> ELSE <<>>)

(***************************************************************************)
(* DocxToMdConverter: CLI detection (src/src/converters/docx-to-md.ts)     *)
(***************************************************************************)
\* DocxToMdConverter.CLI_COMMANDS in insertion order (a Set keeps the first
\* occurrence of a repeated entry)
CLI_COMMANDS_LIST ==
    <<<<"c","u","r","l">>, <<"w","g","e","t">>, <<"s","s","h">>, <<"s","c","p">>,
      <<"r","s","y","n","c">>, <<"t","a","r">>, <<"g","z","i","p">>,
      <<"g","u","n","z","i","p">>, <<"z","i","p">>, <<"u","n","z","i","p">>,
      <<"c","h","m","o","d">>, <<"c","h","o","w","n">>, <<"c","h","g","r","p">>,
      <<"s","u","d","o">>, <<"s","u">>, <<"w","h","o","a","m","i">>, <<"i","d">>,
      <<"u","n","a","m","e">>, <<"l","s">>, <<"c","d">>, <<"p","w","d">>,
      <<"m","k","d","i","r">>, <<"r","m","d","i","r">>, <<"r","m">>, <<"c","p">>, <<"m","v">>,
      <<"c","a","t">>, <<"h","e","a","d">>, <<"t","a","i","l">>, <<"l","e","s","s">>,
      <<"m","o","r","e">>, <<"g","r","e","p">>, <<"e","g","r","e","p">>,
      <<"f","g","r","e","p">>, <<"s","e","d">>, <<"a","w","k">>, <<"c","u","t">>,
      <<"s","o","r","t">>, <<"u","n","i","q">>, <<"w","c">>, <<"f","i","n","d">>,
      <<"l","o","c","a","t","e">>, <<"w","h","i","c","h">>, <<"w","h","e","r","e","i","s">>,
      <<"f","i","l","e">>, <<"s","t","a","t">>, <<"d","u">>, <<"d","f">>,
      <<"t","o","u","c","h">>, <<"l","n">>, <<"r","e","a","d","l","i","n","k">>,
      <<"b","a","s","e","n","a","m","e">>, <<"d","i","r","n","a","m","e">>,
      <<"r","e","a","l","p","a","t","h">>, <<"e","c","h","o">>, <<"p","r","i","n","t","f">>,
      <<"r","e","a","d">>, <<"e","x","p","o","r","t">>, <<"e","n","v">>, <<"s","e","t">>,
      <<"u","n","s","e","t">>, <<"s","o","u","r","c","e">>, <<"a","l","i","a","s">>,
      <<"t","y","p","e">>, <<"c","o","m","m","a","n","d">>, <<"h","a","s","h">>,
      <<"h","i","s","t","o","r","y">>, <<"f","c">>, <<"p","s">>, <<"t","o","p">>,
      <<"h","t","o","p">>, <<"k","i","l","l">>, <<"k","i","l","l","a","l","l">>,
      <<"p","k","i","l","l">>, <<"p","g","r","e","p">>, <<"j","o","b","s">>, <<"b","g">>,
      <<"f","g">>, <<"n","o","h","u","p">>, <<"s","y","s","t","e","m","c","t","l">>,
      <<"s","e","r","v","i","c","e">>, <<"j","o","u","r","n","a","l","c","t","l">>,
      <<"d","m","e","s","g">>, <<"c","r","o","n","t","a","b">>, <<"a","t">>,
      <<"m","o","u","n","t">>, <<"u","m","o","u","n","t">>, <<"f","d","i","s","k">>,
      <<"l","s","b","l","k">>, <<"b","l","k","i","d">>, <<"m","k","f","s">>,
      <<"f","s","c","k">>, <<"i","p">>, <<"i","f","c","o","n","f","i","g">>,
      <<"n","e","t","s","t","a","t">>, <<"s","s">>, <<"p","i","n","g">>,
      <<"t","r","a","c","e","r","o","u","t","e">>, <<"d","i","g">>,
      <<"n","s","l","o","o","k","u","p">>, <<"h","o","s","t">>, <<"n","c">>,
      <<"n","e","t","c","a","t">>, <<"t","e","l","n","e","t">>, <<"f","t","p">>,
      <<"s","f","t","p">>, <<"i","p","t","a","b","l","e","s">>,
      <<"f","i","r","e","w","a","l","l","-","c","m","d">>, <<"u","f","w">>, <<"a","p","t">>,
      <<"a","p","t","-","g","e","t">>, <<"a","p","t","-","c","a","c","h","e">>,
      <<"d","p","k","g">>, <<"y","u","m">>, <<"d","n","f">>, <<"r","p","m">>,
      <<"z","y","p","p","e","r">>, <<"p","a","c","m","a","n">>, <<"b","r","e","w">>,
      <<"p","o","r","t">>, <<"s","n","a","p">>, <<"f","l","a","t","p","a","k">>,
      <<"p","i","p">>, <<"p","i","p","3">>, <<"p","i","p","x">>, <<"c","o","n","d","a">>,
      <<"v","i","r","t","u","a","l","e","n","v">>, <<"v","e","n","v">>, <<"g","e","m">>,
      <<"b","u","n","d","l","e">>, <<"b","u","n","d","l","e","r">>, <<"c","a","r","g","o">>,
      <<"r","u","s","t","u","p">>, <<"r","u","s","t","c">>, <<"g","o">>,
      <<"g","o","f","m","t">>, <<"c","o","m","p","o","s","e","r">>, <<"p","h","p">>,
      <<"a","r","t","i","s","a","n">>, <<"n","u","g","e","t">>, <<"d","o","t","n","e","t">>,
      <<"n","p","m">>, <<"n","p","x">>, <<"y","a","r","n">>, <<"p","n","p","m">>,
      <<"n","o","d","e">>, <<"n","o","d","e","j","s">>, <<"n","v","m">>, <<"f","n","m">>,
      <<"t","s","c">>, <<"t","s","x">>, <<"e","s","b","u","i","l","d">>, <<"v","i","t","e">>,
      <<"w","e","b","p","a","c","k">>, <<"r","o","l","l","u","p">>,
      <<"p","a","r","c","e","l">>, <<"e","s","l","i","n","t">>,
      <<"p","r","e","t","t","i","e","r">>, <<"j","e","s","t">>, <<"v","i","t","e","s","t">>,
      <<"m","o","c","h","a">>, <<"p","y","t","h","o","n">>, <<"p","y","t","h","o","n","3">>,
      <<"p","y">>, <<"p","y","t","e","s","t">>, <<"p","o","e","t","r","y">>, <<"p","d","m">>,
      <<"u","v">>, <<"d","j","a","n","g","o","-","a","d","m","i","n">>,
      <<"f","l","a","s","k">>, <<"u","v","i","c","o","r","n">>,
      <<"g","u","n","i","c","o","r","n">>, <<"j","a","v","a">>, <<"j","a","v","a","c">>,
      <<"j","a","r">>, <<"m","v","n">>, <<"m","a","v","e","n">>, <<"g","r","a","d","l","e">>,
      <<"g","r","a","d","l","e","w">>, <<"a","n","t">>, <<"s","c","a","l","a">>,
      <<"s","b","t">>, <<"k","o","t","l","i","n">>, <<"k","o","t","l","i","n","c">>,
      <<"c","l","o","j","u","r","e">>, <<"l","e","i","n">>, <<"d","o","c","k","e","r">>,
      <<"d","o","c","k","e","r","-","c","o","m","p","o","s","e">>, <<"p","o","d","m","a","n">>,
      <<"b","u","i","l","d","a","h">>, <<"s","k","o","p","e","o">>,
      <<"k","u","b","e","c","t","l">>, <<"k","9","s">>, <<"h","e","l","m">>,
      <<"m","i","n","i","k","u","b","e">>, <<"k","i","n","d">>, <<"k","3","s">>,
      <<"k","3","d">>, <<"t","e","r","r","a","f","o","r","m">>,
      <<"t","e","r","r","a","g","r","u","n","t">>, <<"p","u","l","u","m","i">>,
      <<"a","n","s","i","b","l","e">>,
      <<"a","n","s","i","b","l","e","-","p","l","a","y","b","o","o","k">>, <<"a","w","s">>,
      <<"a","z">>, <<"g","c","l","o","u","d">>, <<"g","s","u","t","i","l">>, <<"b","q">>,
      <<"o","c">>, <<"e","k","s","c","t","l">>, <<"v","a","g","r","a","n","t">>,
      <<"p","a","c","k","e","r">>, <<"g","i","t">>, <<"g","h">>, <<"h","u","b">>,
      <<"s","v","n">>, <<"h","g">>, <<"m","e","r","c","u","r","i","a","l">>, <<"v","i","m">>,
      <<"n","v","i","m">>, <<"v","i">>, <<"n","a","n","o">>, <<"e","m","a","c","s">>,
      <<"c","o","d","e">>, <<"s","u","b","l">>, <<"m","a","k","e">>, <<"c","m","a","k","e">>,
      <<"n","i","n","j","a">>, <<"m","e","s","o","n">>, <<"a","u","t","o","c","o","n","f">>,
      <<"a","u","t","o","m","a","k","e">>, <<"g","c","c">>, <<"g","+","+">>,
      <<"c","l","a","n","g">>, <<"c","l","a","n","g","+","+">>, <<"l","d">>, <<"a","r">>,
      <<"n","m">>, <<"o","b","j","d","u","m","p">>, <<"g","d","b">>, <<"l","l","d","b">>,
      <<"v","a","l","g","r","i","n","d">>, <<"s","t","r","a","c","e">>,
      <<"l","t","r","a","c","e">>, <<"m","y","s","q","l">>,
      <<"m","y","s","q","l","d","u","m","p">>, <<"p","s","q","l">>,
      <<"p","g","_","d","u","m","p">>, <<"p","g","_","r","e","s","t","o","r","e">>,
      <<"m","o","n","g","o","s","h">>, <<"m","o","n","g","o">>,
      <<"m","o","n","g","o","d","u","m","p">>,
      <<"m","o","n","g","o","r","e","s","t","o","r","e">>,
      <<"r","e","d","i","s","-","c","l","i">>, <<"s","q","l","i","t","e","3">>, <<"j","q">>,
      <<"y","q">>, <<"x","a","r","g","s">>, <<"p","a","r","a","l","l","e","l">>,
      <<"w","a","t","c","h">>, <<"t","i","m","e","o","u","t">>, <<"d","a","t","e">>,
      <<"c","a","l">>, <<"b","a","s","e","6","4">>, <<"m","d","5","s","u","m">>,
      <<"s","h","a","2","5","6","s","u","m">>, <<"o","p","e","n","s","s","l">>,
      <<"g","p","g">>, <<"f","f","m","p","e","g">>, <<"c","o","n","v","e","r","t">>,
      <<"i","d","e","n","t","i","f","y">>, <<"p","d","f","t","k">>, <<"g","s">>,
      <<"s","a","l","t">>, <<"p","u","p","p","e","t">>, <<"c","h","e","f">> >>

CLI_COMMANDS == Range(CLI_COMMANDS_LIST)

\* the end of the maximal run of characters of class P that starts at i
\* (i - 1 when s[i] is not of the class)
RunEnd(s, i, P(_)) ==
    LET stop == {j \in i..Len(s) : ~P(s[j])}
    IN  IF stop = {} THEN Len(s) ELSE Min(stop) - 1

IsPromptChar(c) == c \in {"#", "$", ">", "%"}
IsBlank(c) == c \in {" ", "\t"}
IsNotSpace(c) == ~IsSpace(c)
IsPathChar(c) == IsWordChar(c) \/ c \in {"/", ".", "-"}
IsWordOrDash(c) == IsWordChar(c) \/ c = "-"
IsArgChar(c) == IsWordChar(c) \/ c \in {".", "-"}
IsEnvChar(c) == c \in Letter \cup Digit \cup {"_"}
IsNotLineEnd(c) == ~IsLineEnd(c)

\* the text up to the first line terminator: what `.*` matches from i on
DotStarEnd(s, i) == RunEnd(s, i, IsNotLineEnd)

\* trimmed after `promptMatch`: /^([#$>%]+)\s*(\S.*)/ replaced by its group 2
StripPrompt(t) ==
    LET p == RunEnd(t, 1, IsPromptChar)
        q == RunEnd(t, p + 1, IsSpace) + 1
    IN  IF p = 0 THEN t
        ELSE IF q <= Len(t) THEN SubSeq(t, q, DotStarEnd(t, q))
        ELSE IF p >= 2 THEN SubSeq(t, p, DotStarEnd(t, p))
        ELSE t

\* trimmed after `noSpacePromptMatch`: /^[#$>%]([a-zA-Z][\w-]*.*)/
StripNoSpacePrompt(t) ==
    IF Len(t) >= 2 /\ IsPromptChar(t[1]) /\ t[2] \in Letter
    THEN SubSeq(t, 2, DotStarEnd(t, 2)) ELSE t

\* trimmed.split(/[\s|;&]/)[0]
FirstToken(t) ==
    LET IsDelim(c) == IsSpace(c) \/ c \in {"|", ";", "&"}
        stop == {j \in 1..Len(t) : IsDelim(t[j])}
    IN  IF stop = {} THEN t ELSE SubSeq(t, 1, Min(stop) - 1)

S_sudo == <<"s","u","d","o">>
\* .replace(/^(sudo\s+)?/, '')
StripSudo(w) ==
    IF StartsWith(w, S_sudo) /\ Len(w) >= 5 /\ IsSpace(w[5])
    THEN SubSeq(w, RunEnd(w, 5, IsSpace) + 1, Len(w)) ELSE w

FirstWord(t) == ToLowerCase(StripSudo(FirstToken(t)))

\* the cliPatterns of looksLikeCliCommand, in the order of the source
HasFlag(t) ==
    \E i \in 1..Len(t) :
        /\ IsSpace(t[i]) /\ i + 2 <= Len(t) /\ t[i + 1] = "-"
        /\ \/ t[i + 2] \in Letter
           \/ t[i + 2] = "-" /\ i + 3 <= Len(t) /\ t[i + 3] \in Letter
HasPipe(t) ==
    \E i \in 1..(Len(t) - 2) : IsSpace(t[i]) /\ t[i + 1] = "|" /\ IsSpace(t[i + 2])
HasRedirect(t) ==
    \E i \in 1..Len(t) :
        /\ IsSpace(t[i]) /\ i + 2 <= Len(t) /\ t[i + 1] \in {"<", ">"}
        /\ \/ IsSpace(t[i + 2])
           \/ t[i + 2] \in {"<", ">"} /\ i + 3 <= Len(t) /\ IsSpace(t[i + 3])
HasAssignment(t) ==
    /\ Len(t) >= 2 /\ t[1] \in Letter \cup {"_"}
    /\ LET e == RunEnd(t, 2, IsEnvChar) IN e + 1 <= Len(t) /\ t[e + 1] = "="
HasDotSlash(t) ==
    Len(t) >= 3 /\ t[1] \in {".", "~"} /\ t[2] = "/" /\ ~IsSpace(t[3])
HasSubstitution(t) ==
    \E i \in 1..Len(t) :
        /\ MatchAt(t, i, <<"$", "(">>)
        /\ \E j \in (i + 3)..Len(t) :
              t[j] = ")" /\ \A k \in (i + 2)..(j - 1) : t[k] # ")"
HasBackticks(t) ==
    \E i \in 1..Len(t) :
        /\ t[i] = Backtick
        /\ \E j \in (i + 2)..Len(t) :
              t[j] = Backtick /\ \A k \in (i + 1)..(j - 1) : t[k] # Backtick
HasVariable(t) ==
    \E i \in 1..(Len(t) - 1) : t[i] = "$" /\ t[i + 1] \in Letter \cup {"_"}
HasShebang(t) ==
    Len(t) >= 4 /\ MatchAt(t, 1, <<"#", "!", "/">>) /\ ~IsSpace(t[4])

MatchesCliPattern(t) ==
    \/ HasFlag(t) \/ HasPipe(t) \/ HasRedirect(t) \/ HasAssignment(t) \/ HasDotSlash(t)
    \/ HasSubstitution(t) \/ HasBackticks(t) \/ HasVariable(t) \/ HasShebang(t)

\* /^https?:\/\//
IsUrlStart(t) ==
    \/ StartsWith(t, <<"h","t","t","p",":","/","/">>)
    \/ StartsWith(t, <<"h","t","t","p","s",":","/","/">>)
\* /^[\/~][\w\/.-]+$/
IsBarePath(t) ==
    Len(t) >= 2 /\ t[1] \in {"/", "~"} /\ \A i \in 2..Len(t) : IsPathChar(t[i])

\* the word looksLikeCliCommand looks up in the dictionary
DictionaryWord(text) == FirstWord(StripNoSpacePrompt(StripPrompt(Trim(text))))

\* looksLikeCliCommand(text)
LooksLikeCliCommand(text) ==
    LET trimmed == Trim(text)
        stripped == StripNoSpacePrompt(StripPrompt(trimmed))
    IN  IF Len(trimmed) < 2 THEN FALSE
        ELSE IF trimmed[1] = Backtick THEN FALSE
        ELSE IF IsUrlStart(trimmed) /\ ~Includes(trimmed, <<" ">>) THEN FALSE
        ELSE IF IsBarePath(trimmed) /\ ~Includes(trimmed, <<" ">>) THEN FALSE
        ELSE IF FirstWord(stripped) \in CLI_COMMANDS THEN TRUE
        ELSE MatchesCliPattern(stripped)

CodeBlockLength == 80
ShouldBeCodeBlockAtLimit(text) ==
    \/ Includes(text, <<"\n">>)
    \/ Len(text) >= CodeBlockLength
    \/ Includes(text, <<" ", "\\">>)
    \/ CountChar(text, "|") >= 2
\* shouldBeCodeBlock(text)
ShouldBeCodeBlock(text) ==
    \/ Includes(text, <<"\n">>)
    \/ Len(text) > CodeBlockLength
    \/ Includes(text, <<" ", "\\">>)
    \/ CountChar(text, "|") >= 2

InlineLength == 60
Backticked(t) == <<Backtick>> \o t \o <<Backtick>>

\* line.replace(/"([^"]+)"/g, ...): the line from position `from` on
RECURSIVE ReplaceQuoted(_, _)
ReplaceQuoted(line, from) ==
    LET opens == {i \in from..Len(line) :
                    /\ line[i] = "\"" /\ i + 2 <= Len(line) /\ line[i + 1] # "\""
                    /\ \E j \in (i + 2)..Len(line) : line[j] = "\""}
    IN  IF opens = {} THEN SubSeq(line, from, Len(line))
        ELSE LET i == Min(opens)
                 j == Min({k \in (i + 2)..Len(line) : line[k] = "\""})
                 content == SubSeq(line, i + 1, j - 1)
             IN  SubSeq(line, from, i - 1)
                    \o (IF LooksLikeCliCommand(content) /\ Len(content) < InlineLength
                        THEN Backticked(content) ELSE SubSeq(line, i, j))
                    \o ReplaceQuoted(line, j + 1)

\* Array.from(CLI_COMMANDS).slice(0, 50)
ToolMentionCommands == {CLI_COMMANDS_LIST[k] : k \in 1..50}

\* the end of (?:\s+-{1,2}[\w-]+(?:=\S+)?)+ continued from `last`, the last
\* position matched so far
RECURSIVE FlagGroupsEnd(_, _)
FlagGroupsEnd(line, last) ==
    LET d == RunEnd(line, last + 1, IsSpace) + 1
        e == RunEnd(line, d, IsWordOrDash)
        v == IF e + 2 <= Len(line) /\ line[e + 1] = "=" /\ ~IsSpace(line[e + 2])
             THEN RunEnd(line, e + 2, IsNotSpace) ELSE e
    IN  IF d > last + 1 /\ d <= Len(line) /\ line[d] = "-" /\ e >= d + 1
        THEN FlagGroupsEnd(line, v) ELSE last

\* toolMentionPattern anchored at position i: \b, one of the commands, \s+,
\* [\w.-]+ and at least one flag group
ToolMentionAt(line, i) ==
    LET w == RunEnd(line, i, IsNotSpace)
        cmd == SubSeq(line, i, w)
        a == RunEnd(line, w + 1, IsSpace) + 1
        b == RunEnd(line, a, IsArgChar)
        last == FlagGroupsEnd(line, b)
    IN  IF /\ i <= Len(line) /\ (i = 1 \/ ~IsWordChar(line[i - 1]))
           /\ cmd \in ToolMentionCommands
           /\ a > w + 1 /\ b >= a /\ last > b
        THEN [ok |-> TRUE, cmd |-> cmd, args |-> SubSeq(line, a, last), last |-> last]
        ELSE [ok |-> FALSE, cmd |-> <<>>, args |-> <<>>, last |-> 0]

\* line.replace(toolMentionPattern, ...): the line from position `from` on
RECURSIVE ReplaceToolMentions(_, _)
ReplaceToolMentions(line, from) ==
    LET starts == {i \in from..Len(line) : ToolMentionAt(line, i).ok}
    IN  IF starts = {} THEN SubSeq(line, from, Len(line))
        ELSE LET i == Min(starts)
                 m == ToolMentionAt(line, i)
                 fullCmd == m.cmd \o <<" ">> \o m.args
             IN  SubSeq(line, from, i - 1)
                    \o (IF Len(fullCmd) < InlineLength THEN Backticked(fullCmd)
                        ELSE SubSeq(line, i, m.last))
                    \o ReplaceToolMentions(line, m.last + 1)

\* formatInlineCliCommands(line)
FormatInlineCliCommands(line) ==
    IF CountChar(line, Backtick) >= 2 THEN line
    ELSE ReplaceToolMentions(ReplaceQuoted(line, 1), 1)

S_fenceBash == <<Backtick,Backtick,Backtick,"b","a","s","h">>
S_fence == <<Backtick,Backtick,Backtick>>

\* trimmedLine.match(/^\d+\./)
IsNumbered(t) ==
    LET e == RunEnd(t, 1, LAMBDA c : c \in Digit)
    IN  e >= 1 /\ e + 1 <= Len(t) /\ t[e + 1] = "."

\* trimmedLine.match(/^#{1,6}\s+[A-Z]/i)
IsHeaderLine(t) ==
    LET h == RunEnd(t, 1, LAMBDA c : c = "#")
        w == RunEnd(t, h + 1, IsSpace)
    IN  h \in 1..6 /\ w > h /\ w + 1 <= Len(t) /\ t[w + 1] \in Letter

\* trimmedLine.replace(/^#+\s*/, '')
AfterHash(t) ==
    LET h == RunEnd(t, 1, LAMBDA c : c = "#")
    IN  IF h = 0 THEN t ELSE SubSeq(t, RunEnd(t, h + 1, IsSpace) + 1, Len(t))

\* the loop turn with `>` missing from the already-formatted test
FormatCliLineQuoteNotSkipped(line) ==
    LET trimmedLine == Trim(line)
    IN  IF \/ trimmedLine # <<>> /\ trimmedLine[1] \in {Backtick, "-", "*"}
           \/ IsNumbered(trimmedLine)
        THEN <<line>>
        ELSE IF IsHeaderLine(trimmedLine) /\ ~LooksLikeCliCommand(AfterHash(trimmedLine))
        THEN <<line>>
        ELSE IF trimmedLine = <<>> THEN <<line>>
        ELSE IF LooksLikeCliCommand(line)
        THEN IF ShouldBeCodeBlock(trimmedLine)
             THEN <<S_fenceBash, trimmedLine, S_fence>>
             ELSE <<Backticked(trimmedLine)>>
        ELSE <<FormatInlineCliCommands(line)>>

\* one turn of the loop of formatCliCommands: the lines pushed to `result`
FormatCliLine(line) ==
    LET trimmedLine == Trim(line)
    IN  IF \/ trimmedLine # <<>> /\ trimmedLine[1] \in {Backtick, ">", "-", "*"}
           \/ IsNumbered(trimmedLine)
        THEN <<line>>
        ELSE IF IsHeaderLine(trimmedLine) /\ ~LooksLikeCliCommand(AfterHash(trimmedLine))
        THEN <<line>>
        ELSE IF trimmedLine = <<>> THEN <<line>>
        ELSE IF LooksLikeCliCommand(line)
        THEN IF ShouldBeCodeBlock(trimmedLine)
             THEN <<S_fenceBash, trimmedLine, S_fence>>
             ELSE <<Backticked(trimmedLine)>>
        ELSE <<FormatInlineCliCommands(line)>>

\* Array.prototype.join('\n')
RECURSIVE JoinLines(_)
JoinLines(lines) ==
    IF Len(lines) = 0 THEN <<>>
    ELSE IF Len(lines) = 1 THEN lines[1]
    ELSE lines[1] \o <<"\n">> \o JoinLines(Tail(lines))

\* formatCliCommands(markdown)
FormatCliCommands(md) ==
    LET lines == SplitLines(md)
    IN  JoinLines(Concat([i \in 1..Len(lines) |-> FormatCliLine(lines[i])]))

\* markdown.replace(/\n{3,}/g, '\n\n'): the text from position `from` on
RECURSIVE CollapseBlankLines(_, _)
CollapseBlankLines(md, from) ==
    LET IsNewline(c) == c = "\n"
        starts == {i \in from..(Len(md) - 2) :
                     IsNewline(md[i]) /\ IsNewline(md[i + 1]) /\ IsNewline(md[i + 2])}
    IN  IF starts = {} THEN SubSeq(md, from, Len(md))
        ELSE LET i == Min(starts)
             IN  SubSeq(md, from, i - 1) \o <<"\n", "\n">>
                    \o CollapseBlankLines(md, RunEnd(md, i, IsNewline) + 1)

\* markdown.replace(/[ \t]+$/gm, ''): the text from position `from` on
RECURSIVE TrimLineEnds(_, _)
TrimLineEnds(md, from) ==
    LET AtLineEnd(e) == e = Len(md) \/ IsLineEnd(md[e + 1])
        starts == {i \in from..Len(md) :
                     IsBlank(md[i]) /\ AtLineEnd(RunEnd(md, i, IsBlank))}
    IN  IF starts = {} THEN SubSeq(md, from, Len(md))
        ELSE LET i == Min(starts)
             IN  SubSeq(md, from, i - 1) \o TrimLineEnds(md, RunEnd(md, i, IsBlank) + 1)

\* the first two statements of cleanupMarkdown
BlankLinePass(md) == TrimLineEnds(CollapseBlankLines(md, 1), 1)

\* cleanupMarkdown(markdown)
CleanupMarkdown(md) == Trim(FormatCliCommands(BlankLinePass(md))) \o <<"\n">>

(***************************************************************************)
(* The texts cleanupMarkdown is run on                                     *)
(***************************************************************************)
MaxLineLength == 81
MaxPipes == 2
MaxGap == 3

L_ls == <<"l","s">>
L_go == <<"g","o">>
L_goFishing ==
    <<"g","o"," ","f","i","s","h","i","n","g"," ","t","h","i","s"," ","w","e","e","k","e","n",
      "d">>
L_hello == <<"H","e","l","l","o"," ","w","o","r","l","d">>
L_sudoMake == <<"s","u","d","o"," ","m","a","k","e"," ","i","n","s","t","a","l","l">>
L_sudoBlah == <<"s","u","d","o"," ","b","l","a","h">>
L_curlPost ==
    <<"c","u","r","l"," ","-","X"," ","P","O","S","T"," ","h","t","t","p","s",":","/","/","a",
      "p","i",".","e","x","a","m","p","l","e",".","c","o","m","/","v","1","/","i","t","e","m",
      "s">>
L_prompt == <<"$"," ","n","p","m"," ","i","n","s","t","a","l","l">>
L_hashCurl == <<"#","c","u","r","l"," ","-","k"," ","x">>
L_hashes == <<"#","#">>
L_header == <<"#"," ","T","i","t","l","e">>
L_headerCmd == <<"#","#"," ","g","i","t"," ","s","t","a","t","u","s">>
L_item == <<"-"," ","i","t","e","m">>
L_star == <<"*"," ","i","t","e","m">>
L_quote == <<">"," ","l","s"," ","-","l","a">>
L_step == <<"1","."," ","l","s">>
L_coded == <<Backtick,"l","s"," ","-","l","a",Backtick>>
L_fenceOpen == <<Backtick,Backtick,Backtick>>
L_blank == <<>>
L_spaces == <<" "," ","\t">>
L_quoted == <<"r","u","n"," ","\"","g","i","t"," ","s","t","a","t","u","s","\""," ","n","o","w">>
L_quotedProse == <<"s","a","y"," ","\"","h","i"," ","t","h","e","r","e","\""," ","n","o","w">>
L_mention ==
    <<"t","h","e","n"," ","t","a","r"," ","a","r","c","h","i","v","e",".","t","g","z"," ","-",
      "x","z","f"," ","-","-","v","e","r","b","o","s","e","=","1"," ","d","o","n","e">>
L_assign == <<"F","O","O","=","b","a","r">>
L_script == <<".","/","r","u","n",".","s","h">>
L_subst == <<"n","o","w"," ","$","(","d","a","t","e",")">>
L_var == <<"t","h","e"," ","$","H","O","M","E"," ","d","i","r">>
L_shebang == <<"#","!","/","b","i","n","/","s","h">>
L_url == <<"h","t","t","p","s",":","/","/","a",".","b","/","c">>
L_path == <<"/","u","s","r","/","b","i","n">>
L_redirect == <<"a"," ",">"," ","b">>
L_piped == <<"x"," ","|"," ","y">>
L_trailing == <<"H","e","l","l","o"," "," ">>
L_pipe == <<"|">>
L_Name == <<"N","a","m","e">>
L_Alice == <<"A","l","i","c","e">>
L_sep == <<"|","-","-","-","|","-","-","-","|">>
L_x == <<"x">>
L_indentedDash == <<" "," ","-"," ","l","s"," ","-","l","a">>

FixedLines ==
    { L_ls, L_go, L_goFishing, L_hello, L_sudoMake, L_sudoBlah, L_curlPost, L_prompt,
      L_hashCurl, L_hashes, L_header, L_headerCmd, L_item, L_star, L_quote, L_step, L_coded,
      L_fenceOpen, L_blank, L_spaces, L_quoted, L_quotedProse, L_mention, L_assign, L_script,
      L_subst, L_var, L_shebang, L_url, L_path, L_redirect, L_piped, L_trailing, L_pipe,
      L_Name, L_Alice, L_sep, L_x, L_indentedDash }

S_curl == <<"c","u","r","l"," ","-","s"," ">>
S_jq == <<" ","|"," ","j","q">>
S_continuation == <<" ","\\">>

\* a line written as text, or a command line `curl -s xxx | jq | jq \` whose
\* trimmed length, number of pipes and closing ` \` are chosen (len = 0: the
\* shortest such line)
LineCases ==
    {[kind |-> "fixed", text |-> t, len |-> 0, pipes |-> 0, backslash |-> FALSE,
      indent |-> FALSE] : t \in FixedLines}
    \cup [kind : {"cmd"}, text : {<<>>}, len : {0} \cup (MaxLineLength - 2)..MaxLineLength,
          pipes : 0..MaxPipes, backslash : BOOLEAN, indent : BOOLEAN]

CmdTail(d) ==
    Concat([k \in 1..d.pipes |-> S_jq]) \o (IF d.backslash THEN S_continuation ELSE <<>>)

\* the command line without its indentation
CmdLineText(d) ==
    LET pad == IF d.len = 0 THEN 1 ELSE d.len - Len(S_curl) - Len(CmdTail(d))
    IN  S_curl \o [k \in 1..pad |-> "x"] \o CmdTail(d)

LineText(d) ==
    IF d.kind = "fixed" THEN d.text
    ELSE (IF d.indent THEN <<" ", " ">> ELSE <<>>) \o CmdLineText(d)

\* the lines that may stand before and after the line
ContextLines == {L_hello, L_fenceOpen, L_blank, L_item}
TableHead == <<L_pipe, L_Name, L_pipe>>
TableRow == <<L_pipe, L_Alice, L_pipe>>
TableLongRow == <<L_pipe, L_Alice, L_pipe, L_x, L_pipe, L_Name, L_pipe>>

\* a text line, 1..MaxGap lines that are empty or hold only blanks, a text line
GapLines == UNION {[1..n -> {L_blank, L_spaces}] : n \in 1..MaxGap}
FixedLine(t) ==
    [kind |-> "fixed", text |-> t, len |-> 0, pipes |-> 0, backslash |-> FALSE,
     indent |-> FALSE]

CleanCases ==
    [line : LineCases, before : {<<>>} \cup {<<t>> : t \in ContextLines},
     after : {<<>>} \cup {<<t>> : t \in ContextLines}]
    \cup {[line |-> FixedLine(L_x), before |-> <<L_hello>> \o g, after |-> <<>>] :
             g \in GapLines}
    \cup {[line |-> [kind |-> "fixed", text |-> L_sep, len |-> 0, pipes |-> 0,
                     backslash |-> FALSE, indent |-> FALSE],
           before |-> TableHead, after |-> r] : r \in {TableRow, TableLongRow}}

CaseMarkdown(c) == JoinLines(c.before \o <<LineText(c.line)>> \o c.after)

\* markdown = this.cleanupMarkdown(markdown)
RunCleanupMarkdown ==
    /\ cleanPc = "raw"
    /\ cleaned' = CleanupMarkdown(markdown)
    /\ cleanPc' = "done"
    /\ UNCHANGED <<cleanCase, markdown, calloutVars, wikiVars, genVars, convVars, resVars,
                   impVars, logVars>>

(***************************************************************************)
(* DocxToMdConverter.convert (src/src/converters/docx-to-md.ts, 20-165)    *)
(***************************************************************************)
S_document == <<"d","o","c","u","m","e","n","t">>
S_dataColon == <<"d","a","t","a",":">>
S_image == <<"i","m","a","g","e">>
S_IMAGE_ == <<"_","_","I","M","A","G","E","_">>
S_jpeg == <<"j","p","e","g">>
S_jpg == <<"j","p","g">>
S_gif == <<"g","i","f">>
S_webp == <<"w","e","b","p">>
S_dotPng == <<".","p","n","g">>
S_dotJpg == <<".","j","p","g">>
S_dotGif == <<".","g","i","f">>
S_dotWebp == <<".","w","e","b","p">>
S_imagePng == <<"i","m","a","g","e","/","p","n","g">>
S_imageJpeg == <<"i","m","a","g","e","/","j","p","e","g">>
S_imageGif == <<"i","m","a","g","e","/","g","i","f">>
S_imageWebp == <<"i","m","a","g","e","/","w","e","b","p">>
S_dashImageDash == <<"-","i","m","a","g","e","-">>
S_embedOpen == <<"!","[","[">>
S_embedClose == <<"]","]">>
S_a == <<"a">>
S_b == <<"b">>

\* `__IMAGE_${i}__`
Placeholder(i) == S_IMAGE_ \o NatToString(i) \o <<"_", "_">>
\* String.prototype.padStart(2, '0')
PadStart2(t) == IF Len(t) < 2 THEN [k \in 1..(2 - Len(t)) |-> "0"] \o t ELSE t

\* const contentType = image.contentType || 'image/png'
ContentTypeOf(image) == IF image.contentType = <<>> THEN S_imagePng ELSE image.contentType

\* the extension chosen from the content type
ExtOf(contentType) ==
    IF Includes(contentType, S_jpeg) \/ Includes(contentType, S_jpg) THEN S_dotJpg
    ELSE IF Includes(contentType, S_gif) THEN S_dotGif
    ELSE IF Includes(contentType, S_webp) THEN S_dotWebp
    ELSE S_dotPng

\* `${this.docBasename}-image-${String(imageIndex + 1).padStart(2, '0')}${ext}`
ImageFilename(docBasename, imageIndex, contentType) ==
    docBasename \o S_dashImageDash \o PadStart2(NatToString(imageIndex + 1))
        \o ExtOf(contentType)

\* a ConvertedImage; data names the image of the document the bytes came from
ConvertedImage(filename, data, contentType) ==
    [filename |-> filename, data |-> data, contentType |-> contentType]

\* the replacement of the turndown rule 'obsidianImages' for <img src=...>
ObsidianImageRule(src, imageCounter) ==
    IF StartsWith(src, S_dataColon) \/ Includes(src, S_image)
    THEN S_embedOpen \o Placeholder(imageCounter) \o S_embedClose
    ELSE S_embedOpen \o src \o S_embedClose

\* this.turndown.turndown(html) of a document of images, one paragraph each
RECURSIVE Turndown(_, _)
Turndown(srcs, imageCounter) ==
    IF srcs = <<>> THEN <<>>
    ELSE IF Len(srcs) = 1 THEN ObsidianImageRule(srcs[1], imageCounter)
    ELSE ObsidianImageRule(srcs[1], imageCounter) \o <<"\n", "\n">>
            \o Turndown(Tail(srcs), imageCounter)

\* String.prototype.replace(pattern, replacement) with a string pattern: the
\* first occurrence only
ReplaceFirst(t, pattern, replacement) ==
    LET at == {i \in 1..Len(t) : MatchAt(t, i, pattern)}
    IN  IF at = {} THEN t
        ELSE SubSeq(t, 1, Min(at) - 1) \o replacement
                \o SubSeq(t, Min(at) + Len(pattern), Len(t))

\* for (let i = 0; i < this.images.length; i++) markdown = markdown.replace(...)
RECURSIVE ReplacePlaceholders(_, _, _)
ReplacePlaceholders(md, images, i) ==
    IF i >= Len(images) THEN md
    ELSE ReplacePlaceholders(ReplaceFirst(md, Placeholder(i), images[i + 1].filename),
                             images, i + 1)

\* the convert() calls that may be made on the one converter
Calls == {"first", "second"}
IdleCall ==
    [pc |-> "idle", doc |-> [basename |-> <<>>, images |-> <<>>], done |-> 0,
     imageIndex |-> 0, srcs |-> <<>>, markdown |-> <<>>, images |-> 0,
     raised |-> "none", error |-> "none"]

\* the images of a document: the content type mammoth reports (<<>>: none), the
\* extension that names its format, whether readAsArrayBuffer() succeeds
MaxImages == 2
ImageKinds ==
    { [contentType |-> S_imagePng, ext |-> S_dotPng, readable |-> TRUE],
      [contentType |-> S_imageJpeg, ext |-> S_dotJpg, readable |-> TRUE],
      [contentType |-> S_imageGif, ext |-> S_dotGif, readable |-> TRUE],
      [contentType |-> S_imageWebp, ext |-> S_dotWebp, readable |-> TRUE],
      [contentType |-> <<>>, ext |-> S_dotPng, readable |-> TRUE],
      [contentType |-> S_imagePng, ext |-> S_dotPng, readable |-> FALSE] }
DocsOf(c) ==
    IF c = "first"
    THEN [basename : {S_a}, images : UNION {[1..n -> ImageKinds] : n \in 0..MaxImages}]
    ELSE {[basename |-> S_b,
           images |-> <<[contentType |-> S_imagePng, ext |-> S_dotPng, readable |-> TRUE]>>]}

\* convert(docxBuffer, basename) up to `await mammoth.convertToHtml(...)`
ConvertStart(c) ==
    /\ convCalls[c].pc = "idle"
    /\ \E doc \in DocsOf(c) :
          convCalls' = [convCalls EXCEPT ![c] = [IdleCall EXCEPT !.pc = "mammoth", !.doc = doc]]
    /\ convHeap' = Append(convHeap, <<>>)
    /\ convFields' = [images |-> Len(convHeap) + 1, imageCounter |-> 0,
                      docBasename |-> convCalls'[c].doc.basename]
    /\ UNCHANGED <<calloutVars, wikiVars, genVars, cleanVars, resVars, impVars, logVars>>

\* mammoth calls extractImage for the next image of the document:
\* extractImage(image) up to `await image.readAsArrayBuffer()`
ExtractImageBegin(c) ==
    /\ convCalls[c].pc = "mammoth"
    /\ convCalls[c].done < Len(convCalls[c].doc.images)
    /\ convCalls' = [convCalls EXCEPT ![c].pc = "reading",
                                      ![c].imageIndex = convFields.imageCounter]
    /\ convFields' = [convFields EXCEPT !.imageCounter = @ + 1]
    /\ UNCHANGED <<convHeap, calloutVars, wikiVars, genVars, cleanVars, resVars, impVars, logVars>>

\* extractImage(image) from the settling of readAsArrayBuffer() on
ExtractImageEnd(c) ==
    /\ convCalls[c].pc = "reading"
    /\ LET call == convCalls[c]
           image == call.doc.images[call.done + 1]
           contentType == ContentTypeOf(image)
           filename == ImageFilename(convFields.docBasename, call.imageIndex, contentType)
       IN  IF image.readable
           THEN /\ convHeap' =
                      [convHeap EXCEPT ![convFields.images] =
                          Append(@, ConvertedImage(filename, <<c, call.done + 1>>,
                                                   contentType))]
                /\ convCalls' = [convCalls EXCEPT
                      ![c].pc = "mammoth", ![c].done = @ + 1,
                      ![c].srcs = Append(@, Placeholder(call.imageIndex))]
           ELSE /\ convHeap' = convHeap
                /\ convCalls' = [convCalls EXCEPT
                      ![c].pc = "mammoth", ![c].done = @ + 1,
                      ![c].srcs = Append(@, <<>>)]
    /\ UNCHANGED <<convFields, calloutVars, wikiVars, genVars, cleanVars, resVars, impVars,
                   logVars>>

\* convert() from the settling of mammoth.convertToHtml on: turndown, the
\* placeholder loop, cleanupMarkdown, return { markdown, images: this.images }
ConvertFinish(c) ==
    /\ convCalls[c].pc = "mammoth"
    /\ convCalls[c].done = Len(convCalls[c].doc.images)
    /\ convCalls' = [convCalls EXCEPT
          ![c].pc = "returned",
          ![c].markdown =
              CleanupMarkdown(
                  ReplacePlaceholders(Turndown(convCalls[c].srcs, convFields.imageCounter),
                                      convHeap[convFields.images], 0)),
          ![c].images = convFields.images]
    /\ UNCHANGED <<convFields, convHeap, calloutVars, wikiVars, genVars, cleanVars, resVars,
                   impVars, logVars>>

\* what the catch clause of convert() throws in place of a new error
CatchRethrowsNewError(error) == "conversionError"
\* catch (error) { this.log('error', ...); throw error; }
CatchRethrows(error) == error

\* the errors of the collaborators: the unpacker, the HTML-to-text step
ConvertErrors == {"unpackError", "turndownError"}

\* mammoth.convertToHtml rejects while convert() awaits it
MammothRejects(c) ==
    /\ convCalls[c].pc = "mammoth"
    /\ convCalls' = [convCalls EXCEPT
          ![c].pc = "rejected", ![c].raised = "unpackError",
          ![c].error = CatchRethrows("unpackError")]
    /\ UNCHANGED <<convFields, convHeap, calloutVars, wikiVars, genVars, cleanVars, resVars,
                   impVars, logVars>>

\* mammoth has settled and this.turndown.turndown(html) throws
TurndownThrows(c) ==
    /\ convCalls[c].pc = "mammoth"
    /\ convCalls[c].done = Len(convCalls[c].doc.images)
    /\ convCalls' = [convCalls EXCEPT
          ![c].pc = "rejected", ![c].raised = "turndownError",
          ![c].error = CatchRethrows("turndownError")]
    /\ UNCHANGED <<convFields, convHeap, calloutVars, wikiVars, genVars, cleanVars, resVars,
                   impVars, logVars>>

(***************************************************************************)
(* VaultImageResolver (src/src/converters/docx-to-md.ts, 437-489)          *)
(***************************************************************************)
F_x == <<"x",".","p","n","g">>
F_y == <<"y",".","p","n","g">>
F_dir_x == <<"d","/","x",".","p","n","g">>
\* the arguments resolve() is called with, the names they stand for
Filenames == {F_x, F_dir_x, F_y}
Names == {F_x, F_y}

\* filename.split('/').pop() || filename
FileNameOf(filename) ==
    LET slashes == {i \in 1..Len(filename) : filename[i] = "/"}
        last == IF slashes = {} THEN filename
                ELSE SubSeq(filename, Max(slashes) + 1, Len(filename))
    IN  IF last = <<>> THEN filename ELSE last

\* the resolve() calls that may be made on the one resolver
Resolves == {"r1", "r2", "r3"}
IdleResolve ==
    [pc |-> "idle", filename |-> <<>>, cachedAs |-> "absent", searched |-> FALSE,
     result |-> "pending"]

CacheEntryHitsOnly(found) == IF found THEN "file" ELSE "absent"
\* this.cache.set(name, imageFile || null)
CacheEntry(found) == IF found THEN "file" ELSE "miss"

\* resolve(filename) up to its first await, or to its return when there is none
Resolve(r) ==
    /\ resCalls[r].pc = "idle"
    /\ \E filename \in Filenames :
          LET name == FileNameOf(filename)
              call == [IdleResolve EXCEPT !.filename = filename,
                                          !.cachedAs = resCache[name]]
          IN  IF resCache[name] # "absent"
              THEN /\ resCalls' = [resCalls EXCEPT ![r] =
                         IF resCache[name] = "miss"
                         THEN [call EXCEPT !.pc = "settled", !.result = "null"]
                         ELSE [call EXCEPT !.pc = "readingCached"]]
                   /\ UNCHANGED <<resCache, resSearches, impVars, logVars>>
              ELSE /\ resSearches' = [resSearches EXCEPT ![name] = @ + 1]
                   /\ resCache' = [resCache EXCEPT ![name] = CacheEntry(name \in resFiles)]
                   /\ resCalls' = [resCalls EXCEPT ![r] =
                         IF name \in resFiles
                         THEN [call EXCEPT !.pc = "readingFound", !.searched = TRUE]
                         ELSE [call EXCEPT !.pc = "settled", !.searched = TRUE,
                                           !.result = "null"]]
    /\ UNCHANGED <<resFiles, calloutVars, wikiVars, genVars, cleanVars, convVars, impVars, logVars>>

\* `buffer: await this.app.vault.readBinary(cached)` settles
ReadCachedSettles(r) ==
    /\ resCalls[r].pc = "readingCached"
    /\ \E readOk \in BOOLEAN :
          resCalls' = [resCalls EXCEPT ![r].pc = "settled",
                          ![r].result = IF readOk THEN "data" ELSE "rejected"]
    /\ UNCHANGED <<resFiles, resCache, resSearches, calloutVars, wikiVars, genVars,
                   cleanVars, convVars, impVars, logVars>>

\* `await this.app.vault.readBinary(imageFile)` inside try/catch settles
ReadFoundSettles(r) ==
    /\ resCalls[r].pc = "readingFound"
    /\ \E readOk \in BOOLEAN :
          resCalls' = [resCalls EXCEPT ![r].pc = "settled",
                          ![r].result = IF readOk THEN "data" ELSE "null"]
    /\ UNCHANGED <<resFiles, resCache, resSearches, calloutVars, wikiVars, genVars,
                   cleanVars, convVars, impVars, logVars>>

\* clearCache(): a new lifetime of the cache begins
ClearCache ==
    /\ resCache' = [n \in Names |-> "absent"]
    /\ resSearches' = [n \in Names |-> 0]
    /\ UNCHANGED <<resFiles, resCalls, calloutVars, wikiVars, genVars, cleanVars, convVars,
                   impVars, logVars>>

(***************************************************************************)
(* KBConverterPlugin: DOCX import (src/unnamed/part_000, 206-413)          *)
(***************************************************************************)
S__assets == <<"_","a","s","s","e","t","s">>
S_img == <<"i","m","g">>
S_att == <<"a","t","t">>
S_notes == <<"n","o","t","e","s">>
S_myDoc == <<"m","y","-","d","o","c">>

\* normalizePath of the obsidian API: runs of / become one /, no / at either end
NormalizePath(path) ==
    LET idx == SelectSeq([i \in 1..Len(path) |-> i],
                         LAMBDA i : ~(path[i] = "/" /\ (i = 1 \/ path[i - 1] = "/")))
        collapsed == [k \in 1..Len(idx) |-> path[idx[k]]]
    IN  IF collapsed # <<>> /\ collapsed[Len(collapsed)] = "/"
        THEN SubSeq(collapsed, 1, Len(collapsed) - 1) ELSE collapsed

\* `${folder}/${name}`
JoinPath(folder, name) == folder \o <<"/">> \o name

\* computeAssetsFolder(basename, outputFolder)
ComputeAssetsFolder(basename, outputFolder) ==
    CASE importSettings.assetsLocation = "same" -> outputFolder
      [] importSettings.assetsLocation = "custom" ->
            IF importSettings.createDocumentSubfolder
            THEN JoinPath(importSettings.customAssetsPath, basename)
            ELSE importSettings.customAssetsPath
      [] OTHER ->
            LET folderName == IF importSettings.assetsFolderName # <<>>
                              THEN importSettings.assetsFolderName ELSE S__assets
                assetsFolder == IF outputFolder # <<>> THEN JoinPath(outputFolder, folderName)
                                ELSE folderName
            IN  IF importSettings.createDocumentSubfolder
                THEN JoinPath(assetsFolder, basename) ELSE assetsFolder

\* filename.split('-')[0]
SplitDashFirst(filename) ==
    LET dashes == {i \in 1..Len(filename) : filename[i] = "-"}
    IN  IF dashes = {} THEN filename ELSE SubSeq(filename, 1, Min(dashes) - 1)

\* `![](${path})`
MarkdownImage(path) == <<"!", "[", "]", "(">> \o path \o <<")">>
\* `![[${filename}]]`
WikiImage(filename) == S_embedOpen \o filename \o S_embedClose

\* formatImageLink(filename, assetsFolder, outputFolder)
FormatImageLink(filename, assetsFolder, outputFolder) ==
    CASE importSettings.imageLinkFormat = "markdown-absolute" ->
            MarkdownImage(<<"/">> \o (IF assetsFolder # <<>>
                                      THEN JoinPath(assetsFolder, filename) ELSE filename))
      [] importSettings.imageLinkFormat = "markdown-relative" ->
            MarkdownImage(
                IF importSettings.assetsLocation = "same" THEN <<".", "/">> \o filename
                ELSE IF importSettings.assetsLocation = "custom"
                THEN IF assetsFolder # <<>>
                     THEN <<".", "/">> \o JoinPath(assetsFolder, filename)
                     ELSE <<".", "/">> \o filename
                ELSE LET folderName == IF importSettings.assetsFolderName # <<>>
                                       THEN importSettings.assetsFolderName ELSE S__assets
                     IN  IF importSettings.createDocumentSubfolder
                         THEN <<".", "/">>
                                 \o JoinPath(JoinPath(folderName, SplitDashFirst(filename)),
                                             filename)
                         ELSE <<".", "/">> \o JoinPath(folderName, filename))
      [] OTHER -> WikiImage(filename)

\* the loop over result.images that transforms the image links:
\* markdown = markdown.replace(wikiLink, newLink)
RECURSIVE TransformLinks(_, _, _, _, _)
TransformLinks(text, images, i, assetsFolder, outputFolder) ==
    IF i > Len(images) THEN text
    ELSE TransformLinks(
            ReplaceFirst(text, WikiImage(images[i]),
                         FormatImageLink(images[i], assetsFolder, outputFolder)),
            images, i + 1, assetsFolder, outputFolder)

MaxImportImages == 2

\* the result of converter.convert for a document of n images
ImportedImages(basename, n) == [k \in 1..n |-> ImageFilename(basename, k - 1, S_imagePng)]

IdleRun == [pc |-> "idle", images |-> <<>>, assetsFolder |-> <<>>, saved |-> 0,
            markdown |-> <<>>]

\* convertDocxFromVault(file) up to `await this.app.vault.readBinary(file)`
ConvertDocxFromVault ==
    /\ impRun.pc = "idle"
    /\ impRun' = [impRun EXCEPT !.pc = "reading"]
    /\ UNCHANGED <<importSettings, impFile, impVault, calloutVars, wikiVars, genVars,
                   cleanVars, convVars, resVars, logVars>>

\* readBinary settles; up to `await converter.convert(buffer, basename, ...)`
ReadBinarySettles ==
    /\ impRun.pc = "reading"
    /\ impRun' = [impRun EXCEPT !.pc = "converting"]
    /\ UNCHANGED <<importSettings, impFile, impVault, calloutVars, wikiVars, genVars,
                   cleanVars, convVars, resVars, logVars>>

\* convert settles with its result; saveConversionResult computes the assets
\* folder and, when there are images, makes sure the folder exists
ConvertSettles ==
    /\ impRun.pc = "converting"
    /\ \E n \in 0..MaxImportImages :
          LET images == ImportedImages(impFile.basename, n)
          IN  impRun' = [impRun EXCEPT
                !.pc = "saving", !.images = images,
                !.markdown = JoinLines([k \in 1..n |-> WikiImage(images[k])]),
                !.assetsFolder = ComputeAssetsFolder(impFile.basename, impFile.folder)]
    /\ UNCHANGED <<importSettings, impFile, impVault, calloutVars, wikiVars, genVars,
                   cleanVars, convVars, resVars, logVars>>

\* one turn of `for (const image of result.images)`: writeBinary(imagePath, ...)
SaveImage ==
    /\ impRun.pc = "saving"
    /\ impRun.saved < Len(impRun.images)
    /\ impVault' = [impVault EXCEPT
          !.images = Append(@, NormalizePath(JoinPath(impRun.assetsFolder,
                                                      impRun.images[impRun.saved + 1])))]
    /\ impRun' = [impRun EXCEPT !.saved = @ + 1]
    /\ UNCHANGED <<importSettings, impFile, calloutVars, wikiVars, genVars,
                   cleanVars, convVars, resVars, logVars>>

\* saveConversionResult from the link transformation to the write of the
\* Markdown file: modify when the path exists and is a TFile of the vault
\* index, nothing when it exists and is not, create when it does not exist
SaveMarkdown ==
    /\ impRun.pc = "saving"
    /\ impRun.saved = Len(impRun.images)
    /\ LET text == IF importSettings.imageLinkFormat # "wikilink"
                   THEN TransformLinks(impRun.markdown, impRun.images, 1,
                                       impRun.assetsFolder, impFile.folder)
                   ELSE impRun.markdown
       IN  /\ impRun' = [impRun EXCEPT !.pc = "opening", !.markdown = text]
           /\ impVault' = IF impFile.target = "notIndexed" THEN impVault
                          ELSE [impVault EXCEPT !.markdown = text, !.markdownWritten = TRUE]
    /\ UNCHANGED <<importSettings, impFile, calloutVars, wikiVars, genVars,
                   cleanVars, convVars, resVars, logVars>>

\* openFile and triggerTemplater settle and saveConversionResult returns
SaveReturns ==
    /\ impRun.pc = "opening"
    /\ impRun' = [impRun EXCEPT !.pc = "saved"]
    /\ UNCHANGED <<importSettings, impFile, impVault, calloutVars, wikiVars, genVars,
                   cleanVars, convVars, resVars, logVars>>

\* if (deleteSourceAfterConversion) await this.app.vault.delete(file)
DeleteSource ==
    /\ impRun.pc = "saved"
    /\ impRun' = [impRun EXCEPT !.pc = "done"]
    /\ impVault' = IF importSettings.deleteSourceAfterConversion
                   THEN [impVault EXCEPT !.source = FALSE] ELSE impVault
    /\ UNCHANGED <<importSettings, impFile, calloutVars, wikiVars, genVars,
                   cleanVars, convVars, resVars, logVars>>

\* an awaited call of the try block rejects: the catch clause logs and notifies
ImportRejects ==
    /\ impRun.pc \in {"reading", "converting", "saving", "opening", "saved"}
    /\ impRun' = [impRun EXCEPT !.pc = "failed"]
    /\ UNCHANGED <<importSettings, impFile, impVault, calloutVars, wikiVars, genVars,
                   cleanVars, convVars, resVars, logVars>>

(***************************************************************************)
(* Logger (src/src/converters/docx-to-md.ts, 493-595)                      *)
(***************************************************************************)
MaxMessages == 3
TrimLines == 1000

\* the formatted line of the n-th logging call; the empty line is <<>>
LogLine(n) == <<n>>

\* existingContent + this.logs.join('\n') + '\n', as lines: an empty buffer
\* adds one empty line
NewContent(existing, buffer) == existing \o (IF buffer = <<>> THEN << <<>> >> ELSE buffer)

\* lines.length > 1000 ? lines.slice(-1000).join('\n') : newContent, where
\* lines = newContent.split('\n') holds one closing empty string more
Trimmed(content) ==
    IF Len(content) + 1 > TrimLines
    THEN SubSeq(content, Len(content) - TrimLines + 2, Len(content))
    ELSE content

\* info / warn / error / debug: this.logs.push(formatted); this.flush(), which
\* runs up to `await this.app.vault.adapter.exists(this.logPath)`
LoggerLog ==
    /\ logCount < MaxMessages
    /\ logCount' = logCount + 1
    /\ logs' = Append(logs, LogLine(logCount + 1))
    /\ logFlushes' = Append(logFlushes, [pc |-> "exists", newContent |-> <<>>])
    /\ UNCHANGED <<logFile, calloutVars, wikiVars, genVars, cleanVars, convVars, resVars,
                   impVars>>

\* exists settles: the read is awaited, or with no file the new content is
\* built from the buffer as it is now and the write is awaited
ExistsSettles(f) ==
    /\ logFlushes[f].pc = "exists"
    /\ logFlushes' =
          [logFlushes EXCEPT ![f] =
              IF logFile.exists THEN [pc |-> "read", newContent |-> <<>>]
              ELSE [pc |-> "write", newContent |-> NewContent(<<>>, logs)]]
    /\ UNCHANGED <<logs, logFile, logCount, calloutVars, wikiVars, genVars, cleanVars,
                   convVars, resVars, impVars>>

\* read settles: the new content is built from what was read and from the
\* buffer as it is now, and the write is awaited
ReadSettles(f) ==
    /\ logFlushes[f].pc = "read"
    /\ logFlushes' =
          [logFlushes EXCEPT ![f] =
              [pc |-> "write", newContent |-> NewContent(logFile.lines, logs)]]
    /\ UNCHANGED <<logs, logFile, logCount, calloutVars, wikiVars, genVars, cleanVars,
                   convVars, resVars, impVars>>

\* write settles: this.logs = [], and the trim of a file over 1000 lines
WriteSettles(f) ==
    /\ logFlushes[f].pc = "write"
    /\ logFile' = [exists |-> TRUE, lines |-> Trimmed(logFlushes[f].newContent)]
    /\ logs' = <<>>
    /\ logFlushes' = [logFlushes EXCEPT ![f].pc = "done"]
    /\ UNCHANGED <<logCount, calloutVars, wikiVars, genVars, cleanVars, convVars, resVars,
                   impVars>>

(***************************************************************************)
(* Specifications                                                          *)
(***************************************************************************)
\* the tree as remark-parse hands it to the calloutPlugin transformer
CalloutInit ==
    /\ calloutCase \in CalloutCases
    /\ calloutTree = CaseTree(calloutCase)
    /\ calloutPc = "parsed"
    /\ wikiCase = [segs |-> <<>>] /\ wikiMode = "none" /\ wikiTree = <<>> /\ wikiPc = "idle"
    /\ genCase = [main |-> [kind |-> "none"]] /\ ast = <<>> /\ children = <<>>
    /\ genPos = 0 /\ genPc = "idle"
    /\ imageAnswer = NoImage
    /\ cleanCase = [before |-> <<>>] /\ markdown = <<>> /\ cleaned = <<>> /\ cleanPc = "idle"
    /\ convFields = [images |-> 0] /\ convHeap = <<>> /\ convCalls = <<>>
    /\ resFiles = {} /\ resCache = <<>> /\ resCalls = <<>> /\ resSearches = <<>>
    /\ importSettings = [assetsLocation |-> "none"] /\ impFile = [basename |-> <<>>]
    /\ impRun = [pc |-> "idle"] /\ impVault = [source |-> FALSE]
    /\ logs = <<>> /\ logFile = [exists |-> FALSE] /\ logFlushes = <<>> /\ logCount = 0

CalloutNext == RunCalloutPlugin
SpecCallout == CalloutInit /\ [][CalloutNext]_vars

\* the tree as remark-parse hands it to the wikiLinkPlugin transformer
WikiInit ==
    /\ wikiCase \in WikiCases
    /\ wikiMode \in {"remove", "text"}
    /\ wikiTree = WikiCaseTree(wikiCase)
    /\ wikiPc = "parsed"
    /\ calloutCase = [shape |-> "none"] /\ calloutTree = <<>> /\ calloutPc = "idle"
    /\ genCase = [main |-> [kind |-> "none"]] /\ ast = <<>> /\ children = <<>>
    /\ genPos = 0 /\ genPc = "idle"
    /\ imageAnswer = NoImage
    /\ cleanCase = [before |-> <<>>] /\ markdown = <<>> /\ cleaned = <<>> /\ cleanPc = "idle"
    /\ convFields = [images |-> 0] /\ convHeap = <<>> /\ convCalls = <<>>
    /\ resFiles = {} /\ resCache = <<>> /\ resCalls = <<>> /\ resSearches = <<>>
    /\ importSettings = [assetsLocation |-> "none"] /\ impFile = [basename |-> <<>>]
    /\ impRun = [pc |-> "idle"] /\ impVault = [source |-> FALSE]
    /\ logs = <<>> /\ logFile = [exists |-> FALSE] /\ logFlushes = <<>> /\ logCount = 0

WikiNext == RunWikiLinkPlugin
SpecWiki == WikiInit /\ [][WikiNext]_vars

\* a DocxGenerator whose generate() has not been called yet
GenInit ==
    /\ genCase \in GenCases
    /\ ast = GenCaseAst(genCase)
    /\ children = <<>>
    /\ genPos = 0
    /\ genPc = "idle"
    /\ imageAnswer \in ImageAnswers
    /\ calloutCase = [shape |-> "none"] /\ calloutTree = <<>> /\ calloutPc = "idle"
    /\ wikiCase = [segs |-> <<>>] /\ wikiMode = "none" /\ wikiTree = <<>> /\ wikiPc = "idle"
    /\ cleanCase = [before |-> <<>>] /\ markdown = <<>> /\ cleaned = <<>> /\ cleanPc = "idle"
    /\ convFields = [images |-> 0] /\ convHeap = <<>> /\ convCalls = <<>>
    /\ resFiles = {} /\ resCache = <<>> /\ resCalls = <<>> /\ resSearches = <<>>
    /\ importSettings = [assetsLocation |-> "none"] /\ impFile = [basename |-> <<>>]
    /\ impRun = [pc |-> "idle"] /\ impVault = [source |-> FALSE]
    /\ logs = <<>> /\ logFile = [exists |-> FALSE] /\ logFlushes = <<>> /\ logCount = 0

GenNext == Generate \/ GenerateNode \/ GeneratePack
SpecGen == GenInit /\ [][GenNext]_vars

\* the text as turndown returned it, the image placeholders replaced
CleanInit ==
    /\ cleanCase \in CleanCases
    /\ markdown = CaseMarkdown(cleanCase)
    /\ cleaned = <<>>
    /\ cleanPc = "raw"
    /\ calloutCase = [shape |-> "none"] /\ calloutTree = <<>> /\ calloutPc = "idle"
    /\ wikiCase = [segs |-> <<>>] /\ wikiMode = "none" /\ wikiTree = <<>> /\ wikiPc = "idle"
    /\ genCase = [main |-> [kind |-> "none"]] /\ ast = <<>> /\ children = <<>>
    /\ genPos = 0 /\ genPc = "idle"
    /\ imageAnswer = NoImage
    /\ convFields = [images |-> 0] /\ convHeap = <<>> /\ convCalls = <<>>
    /\ resFiles = {} /\ resCache = <<>> /\ resCalls = <<>> /\ resSearches = <<>>
    /\ importSettings = [assetsLocation |-> "none"] /\ impFile = [basename |-> <<>>]
    /\ impRun = [pc |-> "idle"] /\ impVault = [source |-> FALSE]
    /\ logs = <<>> /\ logFile = [exists |-> FALSE] /\ logFlushes = <<>> /\ logCount = 0

CleanNext == RunCleanupMarkdown
SpecClean == CleanInit /\ [][CleanNext]_vars

\* new DocxToMdConverter(logger)
ConvertInit ==
    /\ convFields = [images |-> 1, imageCounter |-> 0, docBasename |-> S_document]
    /\ convHeap = << <<>> >>
    /\ convCalls = [c \in Calls |-> IdleCall]
    /\ resFiles = {} /\ resCache = <<>> /\ resCalls = <<>> /\ resSearches = <<>>
    /\ importSettings = [assetsLocation |-> "none"] /\ impFile = [basename |-> <<>>]
    /\ impRun = [pc |-> "idle"] /\ impVault = [source |-> FALSE]
    /\ logs = <<>> /\ logFile = [exists |-> FALSE] /\ logFlushes = <<>> /\ logCount = 0
    /\ calloutCase = [shape |-> "none"] /\ calloutTree = <<>> /\ calloutPc = "idle"
    /\ wikiCase = [segs |-> <<>>] /\ wikiMode = "none" /\ wikiTree = <<>> /\ wikiPc = "idle"
    /\ genCase = [main |-> [kind |-> "none"]] /\ ast = <<>> /\ children = <<>>
    /\ genPos = 0 /\ genPc = "idle"
    /\ imageAnswer = NoImage
    /\ cleanCase = [before |-> <<>>] /\ markdown = <<>> /\ cleaned = <<>> /\ cleanPc = "idle"

ConvertNext ==
    \E c \in Calls :
        \/ ConvertStart(c) \/ ExtractImageBegin(c) \/ ExtractImageEnd(c)
        \/ ConvertFinish(c) \/ MammothRejects(c) \/ TurndownThrows(c)
SpecConvert == ConvertInit /\ [][ConvertNext]_vars

\* new VaultImageResolver(app), over a vault holding some of the images
ResolverInit ==
    /\ resFiles \in SUBSET Names
    /\ resCache = [n \in Names |-> "absent"]
    /\ resCalls = [r \in Resolves |-> IdleResolve]
    /\ resSearches = [n \in Names |-> 0]
    /\ convFields = [images |-> 0] /\ convHeap = <<>> /\ convCalls = <<>>
    /\ calloutCase = [shape |-> "none"] /\ calloutTree = <<>> /\ calloutPc = "idle"
    /\ wikiCase = [segs |-> <<>>] /\ wikiMode = "none" /\ wikiTree = <<>> /\ wikiPc = "idle"
    /\ genCase = [main |-> [kind |-> "none"]] /\ ast = <<>> /\ children = <<>>
    /\ genPos = 0 /\ genPc = "idle"
    /\ imageAnswer = NoImage
    /\ cleanCase = [before |-> <<>>] /\ markdown = <<>> /\ cleaned = <<>> /\ cleanPc = "idle"
    /\ importSettings = [assetsLocation |-> "none"] /\ impFile = [basename |-> <<>>]
    /\ impRun = [pc |-> "idle"] /\ impVault = [source |-> FALSE]
    /\ logs = <<>> /\ logFile = [exists |-> FALSE] /\ logFlushes = <<>> /\ logCount = 0

ResolverNext ==
    \/ \E r \in Resolves : Resolve(r) \/ ReadCachedSettles(r) \/ ReadFoundSettles(r)
    \/ ClearCache
SpecResolver == ResolverInit /\ [][ResolverNext]_vars

\* a vault with the .docx, the plugin settings as loaded
ImportInit ==
    /\ importSettings \in
          [assetsLocation : {"subfolder", "same", "custom"},
           customAssetsPath : {<<>>, S_att}, assetsFolderName : {<<>>, S_img},
           createDocumentSubfolder : BOOLEAN,
           imageLinkFormat : {"wikilink", "markdown-relative", "markdown-absolute"},
           deleteSourceAfterConversion : BOOLEAN]
    /\ impFile \in [basename : {S_a, S_myDoc}, folder : {<<>>, S_notes},
                    target : {"absent", "file", "notIndexed"}]
    /\ impRun = IdleRun
    /\ impVault = [source |-> TRUE, images |-> <<>>, markdown |-> <<>>,
                   markdownWritten |-> FALSE]
    /\ logs = <<>> /\ logFile = [exists |-> FALSE] /\ logFlushes = <<>> /\ logCount = 0
    /\ resFiles = {} /\ resCache = <<>> /\ resCalls = <<>> /\ resSearches = <<>>
    /\ convFields = [images |-> 0] /\ convHeap = <<>> /\ convCalls = <<>>
    /\ calloutCase = [shape |-> "none"] /\ calloutTree = <<>> /\ calloutPc = "idle"
    /\ wikiCase = [segs |-> <<>>] /\ wikiMode = "none" /\ wikiTree = <<>> /\ wikiPc = "idle"
    /\ genCase = [main |-> [kind |-> "none"]] /\ ast = <<>> /\ children = <<>>
    /\ genPos = 0 /\ genPc = "idle"
    /\ imageAnswer = NoImage
    /\ cleanCase = [before |-> <<>>] /\ markdown = <<>> /\ cleaned = <<>> /\ cleanPc = "idle"

ImportNext ==
    \/ ConvertDocxFromVault \/ ReadBinarySettles \/ ConvertSettles \/ SaveImage
    \/ SaveMarkdown \/ SaveReturns \/ DeleteSource \/ ImportRejects
SpecImport == ImportInit /\ [][ImportNext]_vars

\* new Logger(app); the log file is not there yet, or is there and empty
LoggerInit ==
    /\ logs = <<>>
    /\ logFile \in [exists : BOOLEAN, lines : {<<>>}]
    /\ logFlushes = <<>>
    /\ logCount = 0
    /\ importSettings = [assetsLocation |-> "none"] /\ impFile = [basename |-> <<>>]
    /\ impRun = [pc |-> "idle"] /\ impVault = [source |-> FALSE]
    /\ resFiles = {} /\ resCache = <<>> /\ resCalls = <<>> /\ resSearches = <<>>
    /\ convFields = [images |-> 0] /\ convHeap = <<>> /\ convCalls = <<>>
    /\ calloutCase = [shape |-> "none"] /\ calloutTree = <<>> /\ calloutPc = "idle"
    /\ wikiCase = [segs |-> <<>>] /\ wikiMode = "none" /\ wikiTree = <<>> /\ wikiPc = "idle"
    /\ genCase = [main |-> [kind |-> "none"]] /\ ast = <<>> /\ children = <<>>
    /\ genPos = 0 /\ genPc = "idle"
    /\ imageAnswer = NoImage
    /\ cleanCase = [before |-> <<>>] /\ markdown = <<>> /\ cleaned = <<>> /\ cleanPc = "idle"

LoggerNext ==
    \/ LoggerLog
    \/ \E f \in DOMAIN logFlushes : ExistsSettles(f) \/ ReadSettles(f) \/ WriteSettles(f)
SpecLogger == LoggerInit /\ [][LoggerNext]_vars

(***************************************************************************)
(* Claims                                                                  *)
(***************************************************************************)
CalloutResult == NodeAtPlace(calloutTree, calloutCase.place)

\* C1: a blockquote whose first paragraph opens with a Text `[!word]` followed
\* by a non-empty rest of line is replaced, at its position in its parent, by
\* a Callout whose calloutType is the word in lower case and whose title is
\* that rest of line; no blockquote is left at that position.
C1_CalloutReplacesBlockquote ==
    (calloutPc = "done" /\ calloutCase.shape = "marker" /\ calloutCase.rest # <<>>)
        => /\ CalloutResult.type = "callout"
           /\ CalloutResult.type # "blockquote"
           /\ CalloutResult.calloutType = calloutCase.word.lower
           /\ CalloutResult.title = SomeTitle(calloutCase.rest)

C1_Witness ==
    /\ calloutPc = "done"
    /\ calloutCase.shape = "marker"
    /\ calloutCase.word.written = S_TIP
    /\ calloutCase.rest = S_QuickTip
    /\ calloutCase.place = "inListItem"
    /\ CalloutResult.type = "callout"
    /\ CalloutResult.calloutType = S_tip

\* C2: when only white space follows `[!word]` on the marker's line, the
\* Callout's title is null, also when the same Text node goes on with further
\* lines: those lines become the first content Paragraph, never the title.
C2_NullTitleWhenMarkerLineEmpty ==
    (calloutPc = "done" /\ calloutCase.shape = "marker" /\ calloutCase.rest = <<>>)
        => /\ CalloutResult.type = "callout"
           /\ CalloutResult.title = NullTitle
           /\ calloutCase.body # <<>> =>
                /\ Len(CalloutResult.children) >= 1
                /\ CalloutResult.children[1].children[1] = TextNode(calloutCase.body)

WikiHasEmbed == \E k \in 1..Len(wikiCase.segs) : wikiCase.segs[k].kind = "embed"

\* what convert-to-plain-text mode is to leave of a segment
SegShown(g) ==
    IF g.kind = "plain" THEN g.alias
    ELSE IF g.hasAlias THEN g.alias ELSE g.target

WikiFirstNodes ==
    IF wikiCase.wrapped THEN wikiTree[1].children
    ELSE SubSeq(wikiTree, 1, Len(wikiTree) - Len(wikiCase.after))

\* C3 as claimed: in convert-to-plain-text mode every `[[target|alias]]` is
\* replaced by exactly `alias` and every `[[target]]` by exactly `target`, the
\* text around the spans is kept verbatim and in order, and no `[` or `]` of a
\* matched span is left in the result.
C3_AsClaimed ==
    (wikiPc = "done" /\ wikiMode = "text" /\ ~WikiHasEmbed)
        => /\ FlattenText(WikiFirstNodes)
                = Concat([k \in 1..Len(wikiCase.segs) |-> SegShown(wikiCase.segs[k])])
           /\ CountChar(FlattenText(WikiFirstNodes), "[") = 0
           /\ CountChar(FlattenText(WikiFirstNodes), "]") = 0

\* C3 (amended): in convert-to-plain-text mode every `[[target|alias]]` is
\* replaced by exactly `alias` and every `[[target]]` by exactly `target`, the
\* text around the spans is kept verbatim and in order, no `]` of a matched
\* span is left, and a `[` is left only where the alias itself contains it.
C3_LinksBecomeShownText ==
    (wikiPc = "done" /\ wikiMode = "text" /\ ~WikiHasEmbed)
        => /\ FlattenText(WikiFirstNodes)
                = Concat([k \in 1..Len(wikiCase.segs) |-> SegShown(wikiCase.segs[k])])
           /\ \A k \in 1..Len(WikiFirstNodes) : WikiFirstNodes[k].type = "text"
           /\ CountChar(FlattenText(WikiFirstNodes), "]") = 0
           /\ CountChar(FlattenText(WikiFirstNodes), "[")
                = CountChar(Concat([k \in 1..Len(wikiCase.segs) |->
                                        SegShown(wikiCase.segs[k])]), "[")

C3_Witness ==
    /\ wikiPc = "done"
    /\ wikiMode = "text"
    /\ wikiCase.segs = <<PlainSeg(S_see), AliasSeg(S_PageA, S_shown), LinkSeg(S_A)>>
    /\ ~wikiCase.wrapped
    /\ Len(wikiTree) = 3 + Len(wikiCase.after)
    /\ wikiTree[2] = TextNode(S_shown)
    /\ wikiTree[3] = TextNode(S_A)

\* C4: in remove mode and in convert-to-plain-text mode every embed `![[...]]`
\* of a Text node is left as it was written: `!`, brackets and target.
C4_EmbedsLeftUnchanged ==
    wikiPc = "done"
        => \A k \in 1..Len(wikiCase.segs) :
              wikiCase.segs[k].kind = "embed"
                  => Includes(FlattenText(wikiTree), SegText(wikiCase.segs[k]))


\* the blocks generate() emitted for the main node of the document
GenHeadingBlocks == IF genCase.heading = <<>> THEN 0 ELSE 1
GenMainBlocks ==
    SubSeq(children, GenHeadingBlocks + 1,
           Len(children) - (IF genCase.trailingList THEN 1 ELSE 0))

FlaggedRun(t, b, i) == [TextRun(t) EXCEPT !.bold = b, !.italics = i]

\* the runs of a chain of wrappers when every text run carries the union of
\* the flags of the wrappers around it
RECURSIVE InheritedRuns(_, _, _)
InheritedRuns(ws, bold, italic) ==
    LET b == bold \/ Head(ws) = "strong"
        i == italic \/ Head(ws) = "emphasis"
    IN  IF Len(ws) = 1 THEN <<FlaggedRun(S_andItalic, b, i)>>
        ELSE <<FlaggedRun(S_bold, b, i)>> \o InheritedRuns(Tail(ws), b, i)
                \o <<FlaggedRun(S_text, b, i)>>

\* C5: every text run carries the union of the bold/italic flags of all its
\* Strong/Emphasis ancestors and keeps its text; Strong['bold ',
\* Emphasis['and italic'], ' text'] yields ('bold ', bold), ('and italic',
\* bold+italic), (' text', bold).
C5_FlagsAreInherited ==
    (genPc = "packed" /\ genCase.main.kind = "inline")
        => /\ Len(GenMainBlocks) = 1
           /\ GenMainBlocks[1].children = InheritedRuns(genCase.main.chain, FALSE, FALSE)
           /\ genCase.main.chain = <<"strong", "emphasis">>
                => GenMainBlocks[1].children =
                      <<FlaggedRun(S_bold, TRUE, FALSE), FlaggedRun(S_andItalic, TRUE, TRUE),
                        FlaggedRun(S_text, TRUE, FALSE)>>

Numerals == <<"1", "2", "3", "4", "5", "6", "7", "8", "9">>
ExpectedMarker(ordered, position) ==
    IF ordered THEN <<Numerals[position], ".", " ">> ELSE <<BulletChar, " ">>

\* the markers of a list shape when every list is numbered by the position
\* of the item within that list only
ExpectedMarkers(c) ==
    Concat([i \in 1..c.n |->
        <<ExpectedMarker(c.ordered, i)>>
            \o (IF i = c.k THEN [j \in 1..c.m |-> ExpectedMarker(c.nestedOrdered, j)]
                ELSE <<>>)])

EmittedMarkers == [b \in 1..Len(GenMainBlocks) |-> GenMainBlocks[b].children[1].text]

\* C6: every ordered list is numbered 1., 2., 3., ... by item position within
\* that list only: a nested ordered list starts again at 1. and the parent's
\* numbering goes on unaffected after it.
C6_NumberingPerList ==
    (genPc = "packed" /\ genCase.main.kind = "list")
        => EmittedMarkers = ExpectedMarkers(genCase.main.shape)

C6_Witness ==
    /\ genPc = "packed"
    /\ genCase.main.kind = "list"
    /\ genCase.main.shape =
          [ordered |-> TRUE, n |-> 3, k |-> 2, m |-> 2, nestedOrdered |-> TRUE]
    /\ EmittedMarkers =
          << <<"1", ".", " ">>, <<"2", ".", " ">>, <<"1", ".", " ">>, <<"2", ".", " ">>,
             <<"3", ".", " ">> >>

IsTocText(t) == t \in {S_TableOfContents, S_TABLEOFCONTENTS}

\* C7: for a Heading whose text is, case-insensitively, 'Table of Contents'
\* the Builder emits no block for the heading and none for the List that is
\* its very next sibling; a List that does not immediately follow such a
\* heading is rendered normally.
C7_TocSuppressed ==
    (genPc = "packed" /\ IsTocText(genCase.heading))
        => /\ \A b \in 1..Len(children) : children[b].heading = 0
           /\ genCase.main.kind = "list"
                => children = (IF genCase.trailingList
                               THEN ProcessNode(TrailingList, imageAnswer) ELSE <<>>)

\* the lines of the cleaned text (its closing newline left out)
CleanedLines == SplitLines(SubSeq(cleaned, 1, Len(cleaned) - 1))
OnlyLine == cleanCase.before = <<>> /\ cleanCase.after = <<>>

DictionaryProse == {L_ls, L_go, L_goFishing}

\* C8: a dictionary hit on the first token is not enough: a line that is a bare
\* dictionary word (ls, go), or a dictionary word followed only by plain prose
\* (go fishing this weekend), is not classified as a command and is not
\* wrapped in code markup.
C8_DictionaryWordAloneIsNoCommand ==
    (cleanPc = "done" /\ OnlyLine /\ cleanCase.line.kind = "fixed"
        /\ cleanCase.line.text \in DictionaryProse)
        => /\ ~LooksLikeCliCommand(markdown)
           /\ cleaned = cleanCase.line.text \o <<"\n">>

\* what the closing trim() of the cleanup leaves of the lines around the line
Kept(ctx) == IF ctx = <<L_blank>> THEN <<>> ELSE ctx

\* a command line is to be fenced when its trimmed text is longer than 80
\* characters, closes with a line-continuation backslash (a blank and `\`) or
\* holds two or more pipes
ToBeFenced(d) == Len(CmdLineText(d)) > 80 \/ d.backslash \/ d.pipes >= 2

RenderedCommand(d) ==
    IF ToBeFenced(d) THEN <<S_fenceBash, CmdLineText(d), S_fence>>
    ELSE <<Backticked(CmdLineText(d))>>

\* C9: a line classified as a command is rendered as a fenced block (opening
\* fence, the trimmed line, closing fence) exactly when the trimmed line is
\* longer than 80 characters, contains a line-continuation backslash or
\* contains two or more pipes, and as one inline code span on a single line
\* otherwise; a line of exactly 80 characters with no backslash and fewer than
\* two pipes is rendered inline.
C9_FencedExactlyWhenLongContinuedOrPiped ==
    (cleanPc = "done" /\ cleanCase.line.kind = "cmd")
        => CleanedLines =
              Kept(cleanCase.before) \o RenderedCommand(cleanCase.line)
                 \o Kept(cleanCase.after)

C9_Witness ==
    /\ cleanPc = "done" /\ OnlyLine
    /\ cleanCase.line.kind = "cmd"
    /\ cleanCase.line.len = 80 /\ cleanCase.line.pipes = 1 /\ ~cleanCase.line.backslash
    /\ Len(Trim(markdown)) = 80
    /\ cleaned = Backticked(Trim(markdown)) \o <<"\n">>

\* a table row of n columns: `|` at both ends, n + 1 bars
IsTableRow(l, n) ==
    Len(l) >= 2 /\ l[1] = "|" /\ l[Len(l)] = "|" /\ CountChar(l, "|") = n + 1

\* C10: the cleanup repairs a table whose cells were split across lines: the
\* lines |, Name, |, |---|---|, |, Alice, | become one row containing Name
\* brought to 2 columns, the separator line unchanged and one row containing
\* Alice brought to 2 columns; no output line is a lone | or a lone fragment.
C10_SplitTableRepaired ==
    (cleanPc = "done" /\ cleanCase.before = TableHead /\ cleanCase.after = TableRow)
        => /\ Len(CleanedLines) = 3
           /\ IsTableRow(CleanedLines[1], 2) /\ Includes(CleanedLines[1], L_Name)
           /\ CleanedLines[2] = L_sep
           /\ IsTableRow(CleanedLines[3], 2) /\ Includes(CleanedLines[3], L_Alice)
           /\ \A k \in 1..Len(CleanedLines) :
                 CleanedLines[k] \notin {L_pipe, L_Name, L_Alice}

\* C11: the blank-line/trailing-whitespace pass of the cleanup (collapse of
\* blank-line runs, then trimming of trailing whitespace per line) is
\* idempotent: applied to its own output it returns that output unchanged.
C11_BlankLinePassIdempotent ==
    cleanPc = "done"
        => BlankLinePass(BlankLinePass(markdown)) = BlankLinePass(markdown)

IsBlankLine(l) == Trim(l) = <<>>

\* C19: the text returned by the cleanup never contains a run of three or
\* more consecutive blank lines.
C19_NoThreeBlankLines ==
    cleanPc = "done"
        => ~\E k \in 1..(Len(CleanedLines) - 2) :
               /\ IsBlankLine(CleanedLines[k])
               /\ IsBlankLine(CleanedLines[k + 1])
               /\ IsBlankLine(CleanedLines[k + 2])

\* C18: lines between an opening ``` fence and its closing fence are emitted
\* unchanged by the command pass: command detection never wraps or re-fences
\* a line that is already inside a fenced block.
C18_FencedLinesUntouched ==
    (cleanPc = "done" /\ cleanCase.before = <<L_fenceOpen>>
        /\ cleanCase.after = <<L_fenceOpen>>)
        => CleanedLines = SplitLines(BlankLinePass(markdown))

S_make == <<"m","a","k","e">>
S_blah == <<"b","l","a","h">>
\* the word X of the lines `sudo X ...`
SudoCommand(t) == IF t = L_sudoMake THEN S_make ELSE S_blah

\* C20: the dictionary is matched against the first token that remains after
\* a leading prompt symbol and an optional leading `sudo ` are stripped: a line
\* `sudo X ...` is a dictionary hit exactly when X is a dictionary command
\* name, so `sudo` followed by a non-dictionary word is not a hit.
C20_SudoStrippedBeforeLookup ==
    (cleanPc = "done" /\ OnlyLine /\ cleanCase.line.kind = "fixed"
        /\ cleanCase.line.text \in {L_sudoMake, L_sudoBlah})
        => /\ DictionaryWord(markdown) = SudoCommand(cleanCase.line.text)
           /\ (DictionaryWord(markdown) \in CLI_COMMANDS)
                 <=> (SudoCommand(cleanCase.line.text) \in CLI_COMMANDS)
           /\ cleanCase.line.text = L_sudoBlah => cleaned = L_sudoBlah \o <<"\n">>

\* the blocks of the heading before and of the list after the main node
ExpectedHeadingBlocks ==
    IF genCase.heading = <<>> THEN <<>>
    ELSE <<DocxParagraph(IF genCase.depth \in 1..6 THEN genCase.depth ELSE 1,
                         <<TextRun(genCase.heading)>>, "heading")>>
ExpectedTrailingBlocks ==
    IF genCase.trailingList
    THEN <<DocxParagraph(0, <<TextRun(<<BulletChar, " ">>), TextRun(S_x)>>, ListLineOptions)>>
    ELSE <<>>

ExpectedImageRuns ==
    IF ~imageAnswer.found THEN <<>>
    ELSE <<ImageRun(IF imageAnswer.width = 0 THEN 400 ELSE imageAnswer.width,
                    IF imageAnswer.height = 0 THEN 300 ELSE imageAnswer.height)>>

\* C14: when the resolver answers 'not found' for an Image node of a
\* paragraph, generate() emits no run for the image, raises no error and
\* still emits every other block and run in document order; with a found
\* image it emits one image run sized with the resolver's width and height,
\* or 400 by 300 when they are absent.
C14_MissingImageSkipped ==
    (genPc = "packed" /\ genCase.main.kind = "image")
        => children =
              ExpectedHeadingBlocks
                 \o <<DocxParagraph(0, <<TextRun(S_bold)>> \o ExpectedImageRuns
                                          \o <<TextRun(S_text)>>, "body")>>
                 \o ExpectedTrailingBlocks

C14_Witness ==
    /\ genPc = "packed" /\ genCase.main.kind = "image"
    /\ ~imageAnswer.found
    /\ genCase.heading = S_Intro /\ genCase.trailingList
    /\ Len(children) = 3
    /\ children[2].children = <<TextRun(S_bold), TextRun(S_text)>>

\* the first convert() call has returned and no other call was ever made
SoloReturned == convCalls["first"].pc = "returned" /\ convCalls["second"].pc = "idle"
ReturnedImages(c) == convHeap[convCalls[c].images]
ReadableImages(doc) == SelectSeq(doc.images, LAMBDA image : image.readable)
\* i written with two digits
TwoDigits(i) == IF i < 10 THEN <<"0", Numerals[i]>> ELSE NatToString(i)

\* C12: the image at 1-based position i of the returned image list is named
\* {basename}-image-{i, two digits}{ext}, ext being .jpg, .gif or .webp when
\* the content type names that format and .png otherwise; the filenames of
\* one result are pairwise distinct.
C12_ImagesNamedByPosition ==
    SoloReturned
        => LET doc == convCalls["first"].doc
               images == ReturnedImages("first")
               sources == ReadableImages(doc)
           IN  /\ Len(images) = Len(sources)
               /\ \A i \in 1..Len(images) :
                     images[i].filename =
                        doc.basename \o S_dashImageDash \o TwoDigits(i) \o sources[i].ext
               /\ \A i, j \in 1..Len(images) :
                     i # j => images[i].filename # images[j].filename

\* C16: the placeholder substitution is complete before cleanupMarkdown runs:
\* the returned markdown contains no placeholder token and references each
\* image of the returned list by its own filename, for every pattern of
\* per-image extraction success and failure.
C16_NoPlaceholderLeft ==
    SoloReturned
        => /\ ~Includes(convCalls["first"].markdown, S_IMAGE_)
           /\ \A i \in 1..Len(ReturnedImages("first")) :
                 Includes(convCalls["first"].markdown,
                          S_embedOpen \o ReturnedImages("first")[i].filename
                              \o S_embedClose)

\* what convert() returns for a document when no other call is under way
RECURSIVE AloneImages(_, _, _)
AloneImages(c, doc, k) ==
    IF k = 0 THEN <<>>
    ELSE AloneImages(c, doc, k - 1)
            \o (IF doc.images[k].readable
                THEN <<ConvertedImage(
                          ImageFilename(doc.basename, k - 1, ContentTypeOf(doc.images[k])),
                          <<c, k>>, ContentTypeOf(doc.images[k]))>>
                ELSE <<>>)
AloneMarkdown(c, doc) ==
    CleanupMarkdown(
        ReplacePlaceholders(
            Turndown([k \in 1..Len(doc.images) |->
                        IF doc.images[k].readable THEN Placeholder(k - 1) ELSE <<>>],
                     Len(doc.images)),
            AloneImages(c, doc, Len(doc.images)), 0))

\* C15: conversions that overlap in time share no mutable state: each of two
\* convert() calls whose executions interleave at their await points returns
\* exactly the text and the images of its own input, with its own image
\* numbering, unaffected by the other call.
C15_OverlappingCallsIndependent ==
    \A c \in Calls :
        convCalls[c].pc = "returned"
            => /\ convCalls[c].markdown = AloneMarkdown(c, convCalls[c].doc)
               /\ ReturnedImages(c) =
                     AloneImages(c, convCalls[c].doc, Len(convCalls[c].doc.images))

\* C13: for any sequence of resolve() calls on one resolver between two
\* clearCache() calls, overlapping calls included, the vault search for a name
\* is performed at most once: the first call populates the cache, a name that
\* is not found is cached as an explicit miss, and every later call for that
\* name returns null without searching again.
C13_AtMostOneSearchPerName ==
    /\ \A n \in Names :
          /\ resSearches[n] <= 1
          /\ (resCache[n] # "absent") <=> (resSearches[n] = 1)
          /\ (resCache[n] = "miss") => n \notin resFiles
    /\ \A r \in Resolves :
          /\ resCalls[r].cachedAs # "absent" => ~resCalls[r].searched
          /\ resCalls[r].cachedAs = "miss"
                => resCalls[r].pc = "settled" /\ resCalls[r].result = "null"

C13_Witness ==
    /\ resSearches[F_x] = 1 /\ resCache[F_x] = "miss"
    /\ resCalls["r1"].filename = F_x /\ resCalls["r1"].searched
    /\ resCalls["r2"].filename = F_dir_x /\ resCalls["r2"].cachedAs = "miss"
    /\ resCalls["r2"].result = "null" /\ ~resCalls["r2"].searched

\* C17: every resolve() call settles with image data or with 'not found' and
\* never with a rejection, on the first lookup of a name and on later cached
\* lookups alike, also when reading the bytes of the found file fails.
C17_ResolveNeverRejects ==
    \A r \in Resolves : resCalls[r].result # "rejected"


\* the lines the command pass tests as already formatted, and the blank lines
SkipLines == {L_item, L_star, L_quote, L_step, L_coded, L_fenceOpen, L_indentedDash}
BlankLines == {L_blank, L_spaces}

\* what reaches the command pass of a line: a line of blanks arrives empty
PassLine(t) == IF t \in BlankLines THEN <<>> ELSE t

\* C21: the command pass emits unchanged, and never wraps in code markup,
\* every blank line and every line whose trimmed text starts with a backtick,
\* >, -, * or a number followed by a dot, and keeps these lines in their
\* order relative to all other lines: the cleaned text is the lines before,
\* the line and the lines after, joined, with only the closing trim applied.
C21_FormattedAndBlankLinesPassThrough ==
    (cleanPc = "done" /\ cleanCase.line.kind = "fixed"
        /\ cleanCase.line.text \in SkipLines \cup BlankLines
        /\ Len(cleanCase.before) <= 1)
        => cleaned =
              Trim(JoinLines(cleanCase.before \o <<PassLine(cleanCase.line.text)>>
                                \o cleanCase.after)) \o <<"\n">>

C21_Witness ==
    /\ cleanPc = "done"
    /\ cleanCase.line.kind = "fixed" /\ cleanCase.line.text = L_quote
    /\ cleanCase.before = <<L_hello>> /\ cleanCase.after = <<L_item>>
    /\ LooksLikeCliCommand(L_quote)
    /\ CleanedLines = <<L_hello, L_quote, L_item>>


\* C22: in the table repair, once a separator line has fixed the column count
\* n (its number of | minus one), every row rebuilt from the fragment lines
\* has exactly n cells (a short row padded, a long row cut) and no fragment
\* stays behind in the buffer: every line of the output of a split table is
\* the separator or a row of n cells.
C22_RebuiltRowsHaveColumnCount ==
    (cleanPc = "done" /\ cleanCase.before = TableHead /\ cleanCase.line.text = L_sep)
        => \A k \in 1..Len(CleanedLines) :
              \/ CleanedLines[k] = L_sep
              \/ IsTableRow(CleanedLines[k], CountChar(L_sep, "|") - 1)


\* the callout paragraph options of a style triple
TripleOptions(style) ==
    [shading |-> style.background, color |-> style.border,
     left |-> style.leftBorderWidth * 4, top |-> 16, right |-> 16, bottom |-> 16]

IsCalloutDocument == genPc = "packed" /\ genCase.main.kind = "calloutOf"

\* C23: a callout is styled with the configured triple of its calloutType
\* when the style configuration has that type as a key, and with the one
\* hardcoded default triple (E8F4FD, 4A90E2, weight 12) for every calloutType
\* that is not a configured key, whatever word the type is.
C23_DefaultTripleForUnconfiguredType ==
    IsCalloutDocument
        => \A b \in 1..Len(children) :
              children[b].props =
                 TripleOptions(IF genCase.main.calloutType \in DOMAIN CalloutStyles
                               THEN CalloutStyles[genCase.main.calloutType]
                               ELSE CalloutStyle("E8F4FD", "4A90E2", 12))

\* C24: in every paragraph emitted for a callout (header line and content
\* lines) the left border is strictly wider than each of the top, right and
\* bottom borders, for every left-border weight a style triple can carry.
C24_LeftBorderWidest ==
    (IsCalloutDocument /\ genCase.main.calloutType \notin ObjectPrototypeKeys)
        => \A b \in 1..Len(children) :
              /\ children[b].props.left > children[b].props.top
              /\ children[b].props.left > children[b].props.right
              /\ children[b].props.left > children[b].props.bottom

\* the nesting depth of each line of a list shape, in emission order
ExpectedDepths(c) ==
    Concat([i \in 1..c.n |-> <<0>> \o (IF i = c.k THEN [j \in 1..c.m |-> 1] ELSE <<>>)])

\* indent.left of a paragraph; a paragraph made without it has none
IndentLeft(paragraph) ==
    IF "indent" \in DOMAIN paragraph.props THEN paragraph.props.indent.left ELSE 0

\* C25: each list line carries an indentation of baseIndent + depth *
\* levelIndent, depth 0 for a top-level list and one more per nesting level:
\* lines of equal depth are indented alike and the lines of a nested list are
\* indented strictly more than the lines of its parent list.
C25_NestedLinesIndentedMore ==
    (genPc = "packed" /\ genCase.main.kind = "list")
        => LET depths == ExpectedDepths(genCase.main.shape)
           IN  \A a, b \in 1..Len(GenMainBlocks) :
                  /\ depths[a] = depths[b]
                        => IndentLeft(GenMainBlocks[a]) = IndentLeft(GenMainBlocks[b])
                  /\ depths[a] < depths[b]
                        => IndentLeft(GenMainBlocks[a]) < IndentLeft(GenMainBlocks[b])


\* C26: when the unpacker (mammoth.convertToHtml) or the HTML-to-text step
\* fails, convert() rejects with that same error, unchanged, and returns no
\* result, neither markdown nor images; a call in which nothing failed is
\* never rejected.
C26_FailureRejectsWithSameError ==
    \A c \in Calls :
        /\ convCalls[c].raised \in ConvertErrors
              => /\ convCalls[c].pc = "rejected"
                 /\ convCalls[c].error = convCalls[c].raised
                 /\ convCalls[c].markdown = <<>> /\ convCalls[c].images = 0
        /\ convCalls[c].pc = "rejected" => convCalls[c].raised \in ConvertErrors

C26_Witness ==
    /\ convCalls["first"].pc = "rejected"
    /\ convCalls["first"].raised = "turndownError"
    /\ convCalls["first"].error = "turndownError"
    /\ Len(convCalls["first"].doc.images) = 1 /\ convCalls["first"].done = 1
    /\ convCalls["second"].pc = "rejected" /\ convCalls["second"].error = "unpackError"


\* the values of all Text nodes of a forest, in document order
RECURSIVE TextValues(_)
TextValues(nodes) ==
    IF nodes = <<>> THEN <<>>
    ELSE LET n == Head(nodes)
         IN  (IF n.type = "text" THEN <<n.value>>
              ELSE IF "children" \in DOMAIN n THEN TextValues(n.children)
              ELSE <<>>) \o TextValues(Tail(nodes))

\* C27: after wikiLinkPlugin has run, in remove or in convert-to-plain-text
\* mode, no Text node anywhere in the tree still holds a [[target]] or
\* [[target|alias]] span: the siblings (and their descendants) after a Text
\* node that was removed whole, and the nodes after a Text node replaced by
\* several fragments, included.
C27_NoWikiSpanLeft ==
    wikiPc = "done"
        => \A k \in 1..Len(TextValues(wikiTree)) : ~WikiHasChanges(TextValues(wikiTree)[k])


\* C28: with delete-source enabled the source .docx is deleted only after the
\* converted Markdown has been written to the vault (created or modified) in
\* the same run; in every run where no Markdown file was written, the target
\* path existing without being a file of the vault index included, the source
\* is not deleted.
C28_SourceDeletedOnlyAfterWrite ==
    ~impVault.source => impVault.markdownWritten

\* the path an image link of the Markdown file at `folder` points to
LinkedPath(folder, link) ==
    LET path == SubSeq(link, 5, Len(link) - 1)
    IN  IF StartsWith(path, <<".", "/">>)
        THEN NormalizePath(JoinPath(folder, SubSeq(path, 3, Len(path))))
        ELSE NormalizePath(path)

\* C29: with image link format markdown-relative, the link written for each
\* extracted image names the location where that image was saved, relative
\* to the folder of the Markdown file, for every basename (those holding a -
\* included), every assets location and either value of
\* createDocumentSubfolder.
C29_RelativeLinkNamesSavedImage ==
    (impRun.pc = "opening" /\ importSettings.imageLinkFormat = "markdown-relative")
        => \A k \in 1..Len(impRun.images) :
              LinkedPath(impFile.folder, SplitLines(impRun.markdown)[k]) = impVault.images[k]


\* C30: for any sequence of logging calls whose un-awaited flush() runs may
\* interleave at their await points, once all flushes have completed every
\* logged message is in the log file exactly once and in call order (none
\* lost, none duplicated), the file staying under the 1000-line trim limit.
C30_EveryMessageOnceInOrder ==
    (\A f \in DOMAIN logFlushes : logFlushes[f].pc = "done")
        => SelectSeq(logFile.lines, LAMBDA line : line # <<>>)
              = [n \in 1..logCount |-> LogLine(n)]

============================================================================
